---- MODULE Spec2Model ----
(***************************************************************************)
(* CV skill-gap analyzer: the response normalizer of GroqService.analyze_cv *)
(* (services/groq_service.py) and the CVAnalysis schema (models/schemas.py).*)
(*                                                                          *)
(* Text is a sequence of one-character strings, so that strip(), lower(),   *)
(* startswith(), slicing and len() are computed as Python computes them.    *)
(* A JSON value is a tagged record; a JSON object is a sequence of          *)
(* key/value members in document order.                                     *)
(***************************************************************************)
EXTENDS Integers, Sequences, FiniteSets, TLC

(***************************************************************************)
(* Bounds of the explored input space.                                      *)
(***************************************************************************)
\* how many places a completion may depart from one of the base completions
MaxDeviations == 2

\* how many entries the search provider may hold for a query
MaxUpstream == 3

\* the pages of an uploaded document
MaxPages == 3

(***************************************************************************)
(* JSON values as json.loads produces them.                                 *)
(***************************************************************************)
JNull == [t |-> "null"]
JBool(b) == [t |-> "bool", b |-> b]
JInt(n) == [t |-> "int", n |-> n]
\* a float with one binary fractional digit: h halves, i.e. the number h/2
JFloat(h) == [t |-> "float", h |-> h]
JStr(s) == [t |-> "str", s |-> s]
JList(items) == [t |-> "list", items |-> items]
\* members: sequence of [k |-> key, v |-> value] in document order
JDict(members) == [t |-> "dict", members |-> members]
Member(k, v) == [k |-> k, v |-> v]

(***************************************************************************)
(* Python built-ins used by the normalizer.                                 *)
(***************************************************************************)
\* bool(v): the truth value that `or`, `if` and `not` test
Truthy(v) ==
    CASE v.t = "null" -> FALSE
      [] v.t = "bool" -> v.b
      [] v.t = "int" -> v.n # 0
      [] v.t = "float" -> v.h # 0
      [] v.t = "str" -> Len(v.s) > 0
      [] v.t = "list" -> Len(v.items) > 0
      [] v.t = "dict" -> Len(v.members) > 0

\* dict.get(key): the value of the member, None when the key is absent
DictGet(d, key) ==
    IF \E i \in 1..Len(d.members) : d.members[i].k = key
    THEN d.members[CHOOSE i \in 1..Len(d.members) :
                       /\ d.members[i].k = key
                       /\ \A j \in (i+1)..Len(d.members) : d.members[j].k # key].v
    ELSE JNull

IsSpace(c) == c \in {" ", "\n"}

RECURSIVE LStrip(_)
LStrip(s) == IF s # <<>> /\ IsSpace(Head(s)) THEN LStrip(Tail(s)) ELSE s

RECURSIVE RStrip(_)
RStrip(s) ==
    IF s # <<>> /\ IsSpace(s[Len(s)]) THEN RStrip(SubSeq(s, 1, Len(s) - 1)) ELSE s

\* str.strip()
Strip(s) == RStrip(LStrip(s))

UpperCase ==
    <<"A", "B", "C", "D", "E", "F", "G", "H", "I", "J", "K", "L", "M",
      "N", "O", "P", "Q", "R", "S", "T", "U", "V", "W", "X", "Y", "Z">>

LowerCase ==
    <<"a", "b", "c", "d", "e", "f", "g", "h", "i", "j", "k", "l", "m",
      "n", "o", "p", "q", "r", "s", "t", "u", "v", "w", "x", "y", "z">>

LowerChar(c) ==
    IF \E i \in 1..26 : UpperCase[i] = c
    THEN LowerCase[CHOOSE i \in 1..26 : UpperCase[i] = c]
    ELSE c

\* str.lower()
Lower(s) == [i \in 1..Len(s) |-> LowerChar(s[i])]

\* str.startswith(prefix)
StartsWith(s, prefix) ==
    Len(s) >= Len(prefix) /\ SubSeq(s, 1, Len(prefix)) = prefix

\* str.endswith(suffix)
EndsWith(s, suffix) ==
    Len(s) >= Len(suffix) /\ SubSeq(s, Len(s) - Len(suffix) + 1, Len(s)) = suffix

Digit(d) == <<"0", "1", "2", "3", "4", "5", "6", "7", "8", "9">>[d + 1]

RECURSIVE NatToStr(_)
NatToStr(n) == IF n < 10 THEN <<Digit(n)>> ELSE Append(NatToStr(n \div 10), Digit(n % 10))

\* str(n) of an int
IntToStr(n) == IF n < 0 THEN <<"-">> \o NatToStr(0 - n) ELSE NatToStr(n)

\* str(x) of a float h/2: "8.5", "9.0", "-0.5"
FloatToStr(h) ==
    LET a == IF h < 0 THEN 0 - h ELSE h
    IN (IF h < 0 THEN <<"-">> ELSE <<>>) \o NatToStr(a \div 2)
         \o <<".">> \o (IF a % 2 = 1 THEN <<"5">> ELSE <<"0">>)

RECURSIVE JoinComma(_)
JoinComma(ss) ==
    IF ss = <<>> THEN <<>>
    ELSE IF Len(ss) = 1 THEN ss[1]
    ELSE ss[1] \o <<",", " ">> \o JoinComma(Tail(ss))

\* repr(v): how a value prints inside a list or dict
RECURSIVE PyRepr(_)
PyRepr(v) ==
    CASE v.t = "null" -> <<"N", "o", "n", "e">>
      [] v.t = "bool" -> IF v.b THEN <<"T", "r", "u", "e">> ELSE <<"F", "a", "l", "s", "e">>
      [] v.t = "int" -> IntToStr(v.n)
      [] v.t = "float" -> FloatToStr(v.h)
      [] v.t = "str" -> <<"'">> \o v.s \o <<"'">>
      [] v.t = "list" ->
           <<"[">> \o JoinComma([i \in 1..Len(v.items) |-> PyRepr(v.items[i])]) \o <<"]">>
      [] v.t = "dict" ->
           <<"{">> \o JoinComma([i \in 1..Len(v.members) |->
                        <<"'", v.members[i].k, "'", ":", " ">> \o PyRepr(v.members[i].v)])
                  \o <<"}">>

\* str(v)
PyStr(v) == IF v.t = "str" THEN v.s ELSE PyRepr(v)

IsDigitChar(c) == c \in {"0", "1", "2", "3", "4", "5", "6", "7", "8", "9"}

DigitVal(c) == CHOOSE d \in 0..9 : Digit(d) = c

RECURSIVE DigitsToNat(_)
DigitsToNat(s) ==
    IF s = <<>> THEN 0 ELSE 10 * DigitsToNat(SubSeq(s, 1, Len(s) - 1)) + DigitVal(s[Len(s)])

\* int(v): [ok |-> TRUE, n |-> value] or [ok |-> FALSE, exc |-> exception class]
PyInt(v) ==
    CASE v.t = "int" -> [ok |-> TRUE, n |-> v.n]
      [] v.t = "bool" -> [ok |-> TRUE, n |-> IF v.b THEN 1 ELSE 0]
      [] v.t = "float" ->
           \* truncation toward zero
           [ok |-> TRUE, n |-> IF v.h < 0 THEN 0 - ((0 - v.h) \div 2) ELSE v.h \div 2]
      [] v.t = "str" ->
           LET body == Strip(v.s)
               neg == body # <<>> /\ Head(body) = "-"
               signed == body # <<>> /\ Head(body) \in {"-", "+"}
               digits == IF signed THEN Tail(body) ELSE body
           IN IF digits # <<>> /\ \A i \in 1..Len(digits) : IsDigitChar(digits[i])
              THEN [ok |-> TRUE, n |-> IF neg THEN 0 - DigitsToNat(digits) ELSE DigitsToNat(digits)]
              ELSE [ok |-> FALSE, exc |-> "ValueError"]
      [] OTHER -> [ok |-> FALSE, exc |-> "TypeError"]

(***************************************************************************)
(* Completion text.  A text is [chars, body]: chars is the character        *)
(* sequence, in which the single symbol "B" stands for the member list      *)
(* ("key": value, ...) of a JSON object, and body is the object those       *)
(* members denote.                                                          *)
(***************************************************************************)
Text(chars, body) == [chars |-> chars, body |-> body]

\* the backquote character (the lexer does not accept it inside a string)
BQ == "BACKQUOTE"

\* the literals "```json" and "```"
FenceJson == <<BQ, BQ, BQ, "j", "s", "o", "n">>
Fence == <<BQ, BQ, BQ>>

\* json.loads(chars): [ok |-> TRUE, data |-> value] or [ok |-> FALSE]
\* (JSONDecodeError).  Whitespace around and between tokens is insignificant.
JsonLoads(chars, body) ==
    LET toks == SelectSeq(chars, LAMBDA c : ~IsSpace(c))
    IN CASE toks = <<"{", "B", "}">> -> [ok |-> TRUE, data |-> body]
         [] toks = <<"{", "}">> -> [ok |-> TRUE, data |-> JDict(<<>>)]
         [] toks = <<"[", "]">> -> [ok |-> TRUE, data |-> JList(<<>>)]
         [] Strip(chars) = <<"7">> -> [ok |-> TRUE, data |-> JInt(7)]
         [] OTHER -> [ok |-> FALSE]

\* clean_text of lines 243-250: strip, drop a leading ```json, then a leading
\* ```, then a trailing ```, strip again
CleanText(result_text) ==
    LET c0 == Strip(result_text)
        c1 == IF StartsWith(c0, FenceJson) THEN SubSeq(c0, 8, Len(c0)) ELSE c0
        c2 == IF StartsWith(c1, Fence) THEN SubSeq(c1, 4, Len(c1)) ELSE c1
        c3 == IF EndsWith(c2, Fence) THEN SubSeq(c2, 1, Len(c2) - 3) ELSE c2
    IN Strip(c3)

\* re.search(r"\{.*\}", result_text, re.DOTALL): the leftmost "{" up to the
\* last "}" after it (greedy, "." matches newlines); <<>> stands for no match
JsonMatch(result_text) ==
    LET opens == {i \in 1..Len(result_text) : result_text[i] = "{"}
        first == CHOOSE i \in opens : \A j \in opens : i <= j
        closes == {i \in 1..Len(result_text) : result_text[i] = "}" /\ i > first}
        last == CHOOSE i \in closes : \A j \in closes : j <= i
    IN IF opens = {} THEN <<>>
       ELSE IF closes = {} THEN <<>>
       ELSE SubSeq(result_text, first, last)

MsgInvalidJson == "Model returned invalid JSON even after extraction. Try again, or slightly shorten your CV / job description."
MsgNoJson == "Model did not return JSON format. Current model: "
MsgEmptyAnalysis == "The AI returned an empty analysis. Please try again or slightly shorten your CV / job description."
MsgFailedToParse == "Failed to parse API response into valid format: "
MsgAnalysisFailed == "Analysis failed: "

\* GroqAPIError(f"{msg}{detail}")
GroqAPIError(msg, detail) == [msg |-> msg, detail |-> detail]

NoError == [msg |-> "", detail |-> ""]

\* lines 242-275 without the regex retry: a JSONDecodeError raises at once
ParseJsonResponse_no_retry(text) ==
    LET direct == JsonLoads(CleanText(text.chars), text.body)
    IN IF direct.ok
       THEN [ok |-> TRUE, path |-> "direct", data |-> direct.data, error |-> NoError]
       ELSE [ok |-> FALSE, path |-> "none", data |-> JNull,
             error |-> GroqAPIError(MsgNoJson, "model")]

\* lines 242-275 parsing result_text as it came, no clean-up and no retry
ParseJsonResponse_raw(text) ==
    LET direct == JsonLoads(text.chars, text.body)
    IN IF direct.ok
       THEN [ok |-> TRUE, path |-> "direct", data |-> direct.data, error |-> NoError]
       ELSE [ok |-> FALSE, path |-> "none", data |-> JNull,
             error |-> GroqAPIError(MsgNoJson, "model")]

\* lines 242-275: parse the cleaned text; on JSONDecodeError retry on the
\* regex match of the raw text.  path records which attempt produced the data.
ParseJsonResponse(text) ==
    LET direct == JsonLoads(CleanText(text.chars), text.body)
        json_match == JsonMatch(text.chars)
        extracted == JsonLoads(json_match, text.body)
    IN IF direct.ok
       THEN [ok |-> TRUE, path |-> "direct", data |-> direct.data, error |-> NoError]
       ELSE IF json_match # <<>>
            THEN IF extracted.ok
                 THEN [ok |-> TRUE, path |-> "regex", data |-> extracted.data,
                       error |-> NoError]
                 ELSE [ok |-> FALSE, path |-> "none", data |-> JNull,
                       error |-> GroqAPIError(MsgInvalidJson, "")]
            ELSE [ok |-> FALSE, path |-> "none", data |-> JNull,
                  error |-> GroqAPIError(MsgNoJson, "model")]

(***************************************************************************)
(* The CVAnalysis schema (models/schemas.py).                               *)
(***************************************************************************)
NotSpecified == <<"N", "o", "t", " ", "s", "p", "e", "c", "i", "f", "i", "e", "d">>

AnalysisNotAvailable ==
    <<"A", "n", "a", "l", "y", "s", "i", "s", " ", "n", "o", "t", " ", "a", "v", "a",
      "i", "l", "a", "b", "l", "e", ".", " ", "P", "l", "e", "a", "s", "e", " ", "r",
      "e", "v", "i", "e", "w", " ", "t", "h", "e", " ", "s", "t", "r", "e", "n", "g",
      "t", "h", "s", " ", "a", "n", "d", " ", "m", "i", "s", "s", "i", "n", "g", " ",
      "s", "k", "i", "l", "l", "s", " ", "a", "b", "o", "v", "e", ".">>

SkillImprovementTutorial ==
    <<"s", "k", "i", "l", "l", " ", "i", "m", "p", "r", "o", "v", "e", "m", "e", "n",
      "t", " ", "t", "u", "t", "o", "r", "i", "a", "l">>

\* validate_score without the upper bound
validate_score_no_upper(v) == 0 <= v

\* validate_score without the lower bound
validate_score_no_lower(v) == v <= 100

\* Field(..., ge=0, le=100) together with validate_score
validate_score(v) == 0 <= v /\ v <= 100

\* validate_lists_minimum
validate_lists_minimum(v) == IF v = <<>> THEN <<NotSpecified>> ELSE v

\* validate_gaps_analysis testing only "not v", without the length test
validate_gaps_analysis_no_length(v) == IF v = <<>> THEN AnalysisNotAvailable ELSE v

\* validate_gaps_analysis
validate_gaps_analysis(v) == IF v = <<>> \/ Len(v) < 10 THEN AnalysisNotAvailable ELSE v

\* validate_youtube_query
validate_youtube_query(v) == IF v = <<>> \/ Len(v) < 3 THEN SkillImprovementTutorial ELSE v

\* List[str]: every element has to be a str
IsListOfStr(lst) == \A i \in 1..Len(lst) : lst[i].t = "str"

\* CVAnalysis(**converted_data): the validated model, or ok = FALSE for a
\* ValidationError.  The scores arrive as ints, the two texts as strs.
CVAnalysis(converted_data) ==
    IF /\ validate_score(converted_data.overall_score)
       /\ validate_score(converted_data.skills_match)
       /\ validate_score(converted_data.experience_match)
       /\ validate_score(converted_data.education_match)
       /\ IsListOfStr(converted_data.strengths)
       /\ IsListOfStr(converted_data.missing_skills)
    THEN [ok |-> TRUE,
          model |->
            [overall_score |-> converted_data.overall_score,
             skills_match |-> converted_data.skills_match,
             experience_match |-> converted_data.experience_match,
             education_match |-> converted_data.education_match,
             strengths |-> validate_lists_minimum(
                 [i \in 1..Len(converted_data.strengths) |-> converted_data.strengths[i].s]),
             missing_skills |-> validate_lists_minimum(
                 [i \in 1..Len(converted_data.missing_skills) |->
                     converted_data.missing_skills[i].s]),
             gaps_analysis |-> validate_gaps_analysis(converted_data.gaps_analysis),
             youtube_search_query |->
                 validate_youtube_query(converted_data.youtube_search_query)]]
    ELSE [ok |-> FALSE]

\* no CVAnalysis (the call raised)
NoAnalysis == [none |-> TRUE]

(***************************************************************************)
(* Key aliases of the eight logical fields, in lookup order (lines 284-342).*)
(***************************************************************************)
OverallKeys == <<"overall_score", "Overall Match Score", "Match Score", "match_score">>
SkillsKeys == <<"skills_match", "Skills Match">>
ExperienceKeys == <<"experience_match", "Experience Match">>
EducationKeys == <<"education_match", "Education Match">>
StrengthsKeys == <<"matching_skills", "strong_skills", "matching_strong_skills",
                   "Matching/Strong Skills", "Matching / strong skills", "Matching Skills">>
MissingKeys == <<"missing_skills", "missing_weak_skills", "Missing/Weak Skills",
                 "Missing / weak skills", "Missing Skills">>
SummaryKeys == <<"skill_gap_analysis_summary", "Summary", "Skill Gap Summary">>
QueryKeys == <<"youtube_search_query", "Search Query", "YouTube search query",
               "YouTube Search Query">>

\* the chain read from its last alias to its first: the last truthy alias wins
RECURSIVE OrChain_last_wins(_, _, _)
OrChain_last_wins(analysis_data, keys, default) ==
    IF keys = <<>> THEN default
    ELSE IF Truthy(DictGet(analysis_data, keys[Len(keys)]))
         THEN DictGet(analysis_data, keys[Len(keys)])
         ELSE OrChain_last_wins(analysis_data, SubSeq(keys, 1, Len(keys) - 1), default)

\* analysis_data.get(k1) or analysis_data.get(k2) or ... or default
RECURSIVE OrChain(_, _, _)
OrChain(analysis_data, keys, default) ==
    IF keys = <<>> THEN default
    ELSE IF Truthy(DictGet(analysis_data, Head(keys)))
         THEN DictGet(analysis_data, Head(keys))
         ELSE OrChain(analysis_data, Tail(keys), default)

\* the eight resolved locals of lines 284-342
ResolveFields(analysis_data) ==
    [overall |-> OrChain(analysis_data, OverallKeys, JInt(0)),
     skills |-> OrChain(analysis_data, SkillsKeys, JInt(0)),
     experience |-> OrChain(analysis_data, ExperienceKeys, JInt(0)),
     education |-> OrChain(analysis_data, EducationKeys, JInt(0)),
     strengths |-> OrChain(analysis_data, StrengthsKeys, JList(<<>>)),
     missing |-> OrChain(analysis_data, MissingKeys, JList(<<>>)),
     summary |-> OrChain(analysis_data, SummaryKeys, JStr(<<>>)),
     query |-> OrChain(analysis_data, QueryKeys, JStr(<<>>))]

\* lines 370-382 with the importance branch left out
NormalizeItem_no_importance(item) ==
    IF item.t = "str" THEN item
    ELSE IF item.t = "dict"
    THEN IF Truthy(DictGet(item, "name")) THEN DictGet(item, "name")
         ELSE IF Truthy(DictGet(item, "skill")) THEN DictGet(item, "skill")
         ELSE JStr(PyStr(item))
    ELSE JStr(PyStr(item))

\* one list entry of lines 370-382 (and 389-400): the appended element
NormalizeItem(item) ==
    IF item.t = "str" THEN item
    ELSE IF item.t = "dict"
    THEN LET name == IF Truthy(DictGet(item, "name")) THEN DictGet(item, "name")
                     ELSE IF Truthy(DictGet(item, "skill")) THEN DictGet(item, "skill")
                     ELSE JStr(PyStr(item))
             importance == DictGet(item, "importance")
         IN IF importance.t # "null"
            THEN JStr(PyStr(name)
                      \o <<" ", "(", "i", "m", "p", "o", "r", "t", "a", "n", "c", "e", " ">>
                      \o PyStr(importance) \o <<"/", "1", "0", ")">>)
            ELSE name
    ELSE JStr(PyStr(item))

\* strengths_norm / missing_norm of lines 367-402
NormalizeSkills(raw) ==
    IF raw.t = "list" THEN [i \in 1..Len(raw.items) |-> NormalizeItem(raw.items[i])]
    ELSE IF raw.t = "str" THEN <<raw>>
    ELSE <<>>

Sentinels == {<<"n", "o", "t", " ", "s", "p", "e", "c", "i", "f", "i", "e", "d">>,
              <<"n", "/", "a">>,
              <<"n", "o", "n", "e">>}

\* _is_truly_empty_list answering True for every list
_is_truly_empty_list_any(lst) == TRUE

\* _is_truly_empty_list without the sentinel test of line 363
_is_truly_empty_list_no_sentinels(lst) ==
    LET kept == SelectSeq(lst, LAMBDA x : Strip(PyStr(x)) # <<>>)
    IN lst = <<>> \/ kept = <<>>

\* _is_truly_empty_list of lines 353-365
_is_truly_empty_list(lst) ==
    LET kept == SelectSeq(lst, LAMBDA x : Strip(PyStr(x)) # <<>>)
        cleaned == [i \in 1..Len(kept) |-> Lower(Strip(PyStr(kept[i])))]
    IN \/ lst = <<>>
       \/ cleaned = <<>>
       \/ \A i \in 1..Len(cleaned) : cleaned[i] \in Sentinels

\* len(x) raises TypeError unless x is a str, list or dict
HasLen(v) == v.t \in {"str", "list", "dict"}

\* the locals of the conversion when it has not got as far as computing them
NoFields == [none |-> TRUE]

\* the outcome of analyze_cv: the returned CVAnalysis or the raised error,
\* with the locals the conversion computed on the way
Outcome(ok, analysis, error, fields, strengths_norm, missing_norm) ==
    [ok |-> ok, analysis |-> analysis, error |-> error, fields |-> fields,
     strengths_norm |-> strengths_norm, missing_norm |-> missing_norm]

\* "except Exception as e" of line 466: every exception of the conversion
\* block, the GroqAPIError of the emptiness guard included, is re-raised as
\* GroqAPIError(f"Failed to parse API response into valid format: {str(e)}")
ConversionError(detail, fields, strengths_norm, missing_norm) ==
    Outcome(FALSE, NoAnalysis, GroqAPIError(MsgFailedToParse, detail),
            fields, strengths_norm, missing_norm)

\* converted_data with another placeholder for an empty list
ConvertedData_other_placeholder(f, overall, skills, experience, education, strengths_norm, missing_norm) ==
    [overall_score |-> overall,
     skills_match |-> skills,
     experience_match |-> experience,
     education_match |-> education,
     strengths |-> IF strengths_norm # <<>> THEN strengths_norm
                   ELSE <<JStr(<<"N", "/", "A">>)>>,
     missing_skills |-> IF missing_norm # <<>> THEN missing_norm
                        ELSE <<JStr(<<"N", "/", "A">>)>>,
     gaps_analysis |-> IF Truthy(f.summary) /\ Strip(f.summary.s) # <<>>
                       THEN Strip(f.summary.s)
                       ELSE AnalysisNotAvailable,
     youtube_search_query |-> IF Truthy(f.query) THEN f.query.s
                              ELSE SkillImprovementTutorial]

\* converted_data of lines 435-448
ConvertedData(f, overall, skills, experience, education, strengths_norm, missing_norm) ==
    [overall_score |-> overall,
     skills_match |-> skills,
     experience_match |-> experience,
     education_match |-> education,
     strengths |-> IF strengths_norm # <<>> THEN strengths_norm
                   ELSE <<JStr(NotSpecified)>>,
     missing_skills |-> IF missing_norm # <<>> THEN missing_norm
                        ELSE <<JStr(NotSpecified)>>,
     gaps_analysis |-> IF Truthy(f.summary) /\ Strip(f.summary.s) # <<>>
                       THEN Strip(f.summary.s)
                       ELSE AnalysisNotAvailable,
     youtube_search_query |-> IF Truthy(f.query) THEN f.query.s
                              ELSE SkillImprovementTutorial]

\* lines 277-469: from the decoded payload to the CVAnalysis
ConvertToCVAnalysis(analysis_data) ==
    IF analysis_data.t # "dict"
    THEN \* line 278: analysis_data.keys() raises AttributeError outside the
         \* conversion block; lines 473-489 match none of their substrings in
         \* "'int' object has no attribute 'keys'" and raise "Analysis failed"
         Outcome(FALSE, NoAnalysis, GroqAPIError(MsgAnalysisFailed, "AttributeError"),
                 NoFields, <<>>, <<>>)
    ELSE
    LET f == ResolveFields(analysis_data)
        strengths_norm == NormalizeSkills(f.strengths)
        missing_norm == NormalizeSkills(f.missing)
        overall == PyInt(f.overall)
        skills == PyInt(f.skills)
        experience == PyInt(f.experience)
        education == PyInt(f.education)
        \* the first int() of lines 411-414 that raises, if any ("and" stops at
        \* the first score that is not 0)
        zero_check_exc ==
            IF ~overall.ok THEN overall.exc
            ELSE IF overall.n # 0 THEN "none"
            ELSE IF ~skills.ok THEN skills.exc
            ELSE IF skills.n # 0 THEN "none"
            ELSE IF ~experience.ok THEN experience.exc
            ELSE IF experience.n # 0 THEN "none"
            ELSE IF ~education.ok THEN education.exc
            ELSE "none"
        all_zero_scores ==
            /\ overall.ok /\ overall.n = 0
            /\ skills.ok /\ skills.n = 0
            /\ experience.ok /\ experience.n = 0
            /\ education.ok /\ education.n = 0
        no_real_strengths == _is_truly_empty_list(strengths_norm)
        no_real_missing == _is_truly_empty_list(missing_norm)
        empty_summary == ~Truthy(f.summary) \/ Strip(f.summary.s) = <<>>
        empty_query == ~Truthy(f.query) \/ Strip(f.query.s) = <<>>
        converted_data ==
            ConvertedData(f, overall.n, skills.n, experience.n, education.n,
                          strengths_norm, missing_norm)
        analysis == CVAnalysis(converted_data)
    IN  \* line 349: len(strengths), len(missing)
        IF ~HasLen(f.strengths) \/ ~HasLen(f.missing)
        THEN ConversionError("TypeError", f, <<>>, <<>>)
        \* lines 410-415: int() of the scores
        ELSE IF zero_check_exc # "none"
        THEN ConversionError(zero_check_exc, f, strengths_norm, missing_norm)
        \* lines 419-420: .strip() of a summary or query that is not a str
        ELSE IF (Truthy(f.summary) /\ f.summary.t # "str")
                \/ (Truthy(f.query) /\ f.query.t # "str")
        THEN ConversionError("AttributeError", f, strengths_norm, missing_norm)
        \* lines 422-433: the emptiness guard
        ELSE IF /\ all_zero_scores
                /\ no_real_strengths
                /\ no_real_missing
                /\ empty_summary
                /\ empty_query
        THEN ConversionError(MsgEmptyAnalysis, f, strengths_norm, missing_norm)
        \* lines 436-439: int() of all four scores
        ELSE IF ~(overall.ok /\ skills.ok /\ experience.ok /\ education.ok)
        THEN ConversionError(
                 IF ~overall.ok THEN overall.exc
                 ELSE IF ~skills.ok THEN skills.exc
                 ELSE IF ~experience.ok THEN experience.exc
                 ELSE education.exc,
                 f, strengths_norm, missing_norm)
        \* line 454: the Pydantic validation
        ELSE IF ~analysis.ok
        THEN ConversionError("ValidationError", f, strengths_norm, missing_norm)
        ELSE Outcome(TRUE, analysis.model, NoError, f, strengths_norm, missing_norm)

\* analyze_cv from the completion text on (lines 241-469)
NormalizeResponse(text) ==
    LET parsed == ParseJsonResponse(text)
    IN IF parsed.ok
       THEN ConvertToCVAnalysis(parsed.data)
              @@ [path |-> parsed.path, data |-> parsed.data]
       ELSE Outcome(FALSE, NoAnalysis, parsed.error, NoFields, <<>>, <<>>)
              @@ [path |-> "none", data |-> JNull]

(***************************************************************************)
(* The completions the model explores.  A payload maps every alias key to   *)
(* a JSON value or to Absent; a completion is a payload rendered as text in *)
(* one of the text forms.  The explored completions are the two example     *)
(* outputs of the prompt (lines 146-176) with at most MaxDeviations         *)
(* departures: a key given another value, or another text form.             *)
(***************************************************************************)
Absent == [t |-> "absent"]

\* The last two keys are field names of CVAnalysis that no lookup reads.
AllKeys == OverallKeys \o SkillsKeys \o ExperienceKeys \o EducationKeys
             \o StrengthsKeys \o MissingKeys \o SummaryKeys \o QueryKeys
             \o <<"strengths", "gaps_analysis">>

KeySet == {AllKeys[i] : i \in 1..Len(AllKeys)}

sPython == JStr(<<"P", "y", "t", "h", "o", "n">>)
sGo == JStr(<<"G", "o">>)
sK8s == JStr(<<"K", "8", "s">>)
sSummary == JStr(<<"S", "o", "l", "i", "d", " ", "m", "a", "t", "c", "h">>)
sQuery == JStr(<<"K", "8", "s", " ", "t", "u", "t", "o", "r", "i", "a", "l">>)

\* the GOOD OUTPUT EXAMPLE of the prompt, abridged
GoodPayload ==
    [k \in KeySet |->
        CASE k = "overall_score" -> JInt(68)
          [] k = "skills_match" -> JInt(72)
          [] k = "experience_match" -> JInt(65)
          [] k = "education_match" -> JInt(80)
          [] k = "matching_skills" -> JList(<<sPython>>)
          [] k = "missing_skills" -> JList(<<sK8s>>)
          [] k = "youtube_search_query" -> sQuery
          [] k = "skill_gap_analysis_summary" -> sSummary
          [] OTHER -> Absent]

\* a completion keyed by the field names of CVAnalysis (tests/test_groq.py,
\* mock_successful_response), abridged
SchemaPayload ==
    [k \in KeySet |->
        CASE k = "overall_score" -> JInt(75)
          [] k = "strengths" -> JList(<<sPython, sGo, sK8s>>)
          [] k = "missing_skills" -> JList(<<sGo, sK8s, sPython>>)
          [] k = "gaps_analysis" -> sSummary
          [] k = "youtube_search_query" -> sQuery
          [] OTHER -> Absent]

\* the BAD OUTPUT EXAMPLE of the prompt
BadPayload ==
    [k \in KeySet |->
        CASE k \in {"overall_score", "skills_match", "experience_match",
                    "education_match"} -> JInt(0)
          [] k \in {"matching_skills", "missing_skills"} -> JList(<<>>)
          [] k \in {"youtube_search_query", "skill_gap_analysis_summary"} -> JStr(<<>>)
          [] OTHER -> Absent]

\* the values a departing key may take
Options(k) ==
    CASE k = "overall_score" ->
           {Absent, JNull, JInt(0), JInt(100), JInt(150), JInt(0 - 5), JFloat(201),
            JFloat(0 - 1), JStr(<<"8", "5">>), JStr(<<"h", "i", "g", "h">>)}
      [] k = "Overall Match Score" -> {JInt(61), JInt(0)}
      [] k = "Match Score" -> {JInt(62)}
      [] k = "match_score" -> {JInt(63)}
      [] k = "skills_match" -> {JInt(0), JInt(101), JBool(TRUE)}
      [] k = "Skills Match" -> {JInt(64)}
      [] k = "experience_match" -> {JInt(0), JFloat(145), JList(<<JInt(65)>>)}
      [] k = "Experience Match" -> {JInt(66)}
      [] k = "education_match" -> {JInt(0), JInt(0 - 1), JStr(<<" ", "9", "0">>)}
      [] k = "Education Match" -> {JInt(67)}
      [] k = "matching_skills" ->
           {Absent, JList(<<>>),
            JList(<<JStr(<<"n", "o", "n", "e">>), JStr(<<" ", "N", "/", "A", " ">>)>>),
            JList(<<JStr(<<>>), sGo>>),
            JList(<<JStr(<<" ">>)>>),
            JList(<<JDict(<<Member("name", sGo), Member("importance", JInt(9))>>),
                    JDict(<<Member("skill", sGo)>>), sPython>>),
            JList(<<JDict(<<Member("name", JInt(7))>>)>>),
            JList(<<JNull>>),
            JList(<<JInt(3), JDict(<<Member("level", JInt(2))>>)>>),
            sGo, JInt(5)}
      [] k = "strong_skills" -> {JList(<<JStr(<<"A", "1">>)>>), JList(<<>>)}
      [] k = "matching_strong_skills" -> {JList(<<JStr(<<"A", "2">>)>>)}
      [] k = "Matching/Strong Skills" -> {JList(<<JStr(<<"A", "3">>)>>)}
      [] k = "Matching / strong skills" -> {JList(<<JStr(<<"A", "4">>)>>)}
      [] k = "Matching Skills" -> {JList(<<JStr(<<"A", "5">>)>>)}
      [] k = "missing_skills" ->
           {Absent, JList(<<>>), JList(<<JStr(NotSpecified)>>),
            JList(<<JDict(<<Member("name", sK8s), Member("importance", JFloat(17))>>)>>),
            JList(<<JDict(<<Member("name", JStr(<<>>)), Member("skill", sGo),
                            Member("importance", JInt(0))>>)>>),
            JList(<<JDict(<<Member("name", JList(<<sGo>>))>>), sK8s>>),
            JDict(<<Member("name", sK8s)>>),
            JStr(<<"N", "o", "n", "e">>)}
      [] k = "missing_weak_skills" -> {JList(<<JStr(<<"M", "1">>)>>)}
      [] k = "Missing/Weak Skills" -> {JList(<<JStr(<<"M", "2">>)>>)}
      [] k = "Missing / weak skills" -> {JList(<<JStr(<<"M", "3">>)>>)}
      [] k = "Missing Skills" -> {JList(<<JStr(<<"M", "4">>)>>)}
      [] k = "skill_gap_analysis_summary" ->
           {Absent, JStr(<<>>), JStr(<<" ", "\n">>), JStr(<<" ", "T", "e", "s", "t", " ">>),
            JStr(<<" ">> \o <<"S", "o", "l", "i", "d", " ", "m", "a", "t", "c", "h">> \o <<"\n">>), JInt(5)}
      [] k = "Summary" -> {JStr(<<"S", "t", "r", "o", "n", "g", " ", "o", "v", "e", "r", "a", "l", "l">>)}
      [] k = "Skill Gap Summary" -> {JStr(<<"G", "a", "p", "s", " ", "i", "n", " ", "t", "o", "o", "l", "i", "n", "g">>)}
      [] k = "youtube_search_query" ->
           {Absent, JStr(<<>>), JStr(<<" ">>), JStr(<<" ", " ", " ">>), JStr(<<"G", "o">>),
            JList(<<sGo>>)}
      [] k = "Search Query" -> {JStr(<<"G", "o", " ", "1">>)}
      [] k = "YouTube search query" -> {JStr(<<"G", "o", " ", "2">>)}
      [] k = "YouTube Search Query" -> {JStr(<<"G", "o", " ", "3">>)}
      [] k = "strengths" -> {Absent, JList(<<sPython, sGo, sK8s>>)}
      [] k = "gaps_analysis" -> {Absent, sSummary}

\* a departure: key k carries value v
Deviations == UNION {{[k |-> k, v |-> v] : v \in Options(k)} : k \in KeySet}

\* the JSON object of a payload: its present keys in key order
Body(payload) ==
    LET present == SelectSeq(AllKeys, LAMBDA k : payload[k] # Absent)
    IN JDict([i \in 1..Len(present) |-> Member(present[i], payload[present[i]])])

\* the text forms: the bare object, and the ways a completion wraps, pads,
\* truncates or replaces it
ObjectChars == <<"{", "B", "}">>

PaddedObjectChars == <<"\n", " ", "{", " ", "B", "\n", "}", " ", "\n">>

FormChars ==
    [plain |-> ObjectChars,
     fenced_json |-> FenceJson \o <<"\n">> \o ObjectChars \o <<"\n">> \o Fence,
     fenced |-> Fence \o <<"\n">> \o ObjectChars \o <<"\n">> \o Fence,
     fenced_tight |-> FenceJson \o ObjectChars \o Fence,
     fenced_other |-> Fence \o <<"j", "s", "\n">> \o ObjectChars \o <<"\n">> \o Fence,
     fence_open_only |-> FenceJson \o <<"\n">> \o ObjectChars,
     fenced_padded |-> Fence \o <<" ">> \o PaddedObjectChars \o Fence \o <<"\n">>,
     padded |-> PaddedObjectChars,
     prose_before |-> <<"O", "k", ":", " ">> \o ObjectChars,
     prose_after |-> ObjectChars \o <<"\n", "O", "k">>,
     fenced_in_prose |-> <<"O", "k", ":", "\n">> \o FenceJson \o <<"\n">> \o ObjectChars
                           \o <<"\n">> \o Fence \o <<"\n", "O", "k">>,
     two_objects |-> ObjectChars \o <<"\n">> \o ObjectChars,
     truncated |-> <<"{", "B">>,
     stray_close |-> <<"}", " ", "{", "B">>,
     no_json |-> <<"S", "u", "r", "e", ",", " ", "h", "e", "r", "e">>,
     empty_object |-> <<"{", "}">>,
     empty_text |-> <<>>,
     json_list |-> <<"[", "]">>,
     json_number |-> <<"7">>]

Forms == DOMAIN FormChars

\* the completion text of a payload in a form; a form without the member
\* list "B" denotes no object members
Render(form, payload) ==
    Text(FormChars[form],
         IF \E i \in 1..Len(FormChars[form]) : FormChars[form][i] = "B"
         THEN Body(payload) ELSE JDict(<<>>))

(***************************************************************************)
(* The completion client: the provider call fails.                         *)
(***************************************************************************)
\* "sub in s" of Python strings
Contains(s, sub) ==
    \E i \in 0..(Len(s) - Len(sub)) : SubSeq(s, i + 1, i + Len(sub)) = sub

MsgInvalidApiKey == "Invalid API key. Please check your GROQ_API_KEY in .env file."
MsgRateLimit == "Rate limit exceeded. Please wait a moment and try again."
MsgTimedOut == "Request timed out. Please try again."
MsgModelNotFound == "Model not found. Check GROQ_MODEL in .env file. Current: "

\* GroqAPIError(f"Analysis failed: {str(e)}"): the text ends in the message e
GroqAPIErrorWith(msg, e) == [msg |-> msg, detail |-> "str(e)", e |-> e]

\* the exception of the provider call: none, or one with message msg
NoException == [raised |-> FALSE, msg |-> <<>>]

Exception(msg) == [raised |-> TRUE, msg |-> msg]

\* the handler with the timeout test ahead of the rate-limit test
ClassifyException_timeout_first(e) ==
    LET error_msg == Lower(e)
    IN IF \/ Contains(error_msg, <<"a", "u", "t", "h", "e", "n", "t", "i", "c", "a", "t", "i", "o", "n">>)
          \/ Contains(error_msg, <<"a", "p", "i", " ", "k", "e", "y">>)
          \/ Contains(error_msg, <<"4", "0", "1">>)
       THEN GroqAPIError(MsgInvalidApiKey, "")
       ELSE IF Contains(error_msg, <<"t", "i", "m", "e", "o", "u", "t">>)
       THEN GroqAPIError(MsgTimedOut, "")
       ELSE IF \/ Contains(error_msg, <<"r", "a", "t", "e", " ", "l", "i", "m", "i", "t">>)
               \/ Contains(error_msg, <<"4", "2", "9">>)
       THEN GroqAPIError(MsgRateLimit, "")
       ELSE IF /\ Contains(error_msg, <<"m", "o", "d", "e", "l">>)
               /\ Contains(error_msg, <<"n", "o", "t", " ", "f", "o", "u", "n", "d">>)
       THEN GroqAPIError(MsgModelNotFound, "model")
       ELSE GroqAPIErrorWith(MsgAnalysisFailed, e)

\* "except Exception as e" of lines 473-489: the GroqAPIError raised for an
\* exception whose str() is e
ClassifyException(e) ==
    LET error_msg == Lower(e)
    IN IF \/ Contains(error_msg, <<"a", "u", "t", "h", "e", "n", "t", "i", "c", "a", "t", "i", "o", "n">>)
          \/ Contains(error_msg, <<"a", "p", "i", " ", "k", "e", "y">>)
          \/ Contains(error_msg, <<"4", "0", "1">>)
       THEN GroqAPIError(MsgInvalidApiKey, "")
       ELSE IF \/ Contains(error_msg, <<"r", "a", "t", "e", " ", "l", "i", "m", "i", "t">>)
               \/ Contains(error_msg, <<"4", "2", "9">>)
       THEN GroqAPIError(MsgRateLimit, "")
       ELSE IF Contains(error_msg, <<"t", "i", "m", "e", "o", "u", "t">>)
       THEN GroqAPIError(MsgTimedOut, "")
       ELSE IF /\ Contains(error_msg, <<"m", "o", "d", "e", "l">>)
               /\ Contains(error_msg, <<"n", "o", "t", " ", "f", "o", "u", "n", "d">>)
       THEN GroqAPIError(MsgModelNotFound, "model")
       ELSE GroqAPIErrorWith(MsgAnalysisFailed, e)

\* test_connection answering True whatever the provider call did
TestConnectionResult_always_true(e) == TRUE

\* test_connection of lines 491-509: True when the call went through, False
\* when it raised
TestConnectionResult(e) == ~e.raised

\* messages of the exceptions the provider call raises
ProviderMessages ==
    {<<"I", "n", "v", "a", "l", "i", "d", " ", "A", "P", "I", " ", "K", "e", "y">>,
     <<"A", "u", "t", "h", "e", "n", "t", "i", "c", "a", "t", "i", "o", "n", " ", "f", "a", "i", "l", "e", "d">>,
     <<"E", "r", "r", "o", "r", " ", "c", "o", "d", "e", ":", " ", "4", "0", "1">>,
     <<"R", "a", "t", "e", " ", "l", "i", "m", "i", "t", " ", "r", "e", "a", "c", "h", "e", "d">>,
     <<"E", "r", "r", "o", "r", " ", "c", "o", "d", "e", ":", " ", "4", "2", "9">>,
     <<"R", "e", "q", "u", "e", "s", "t", " ", "T", "i", "m", "e", "o", "u", "t">>,
     <<"m", "o", "d", "e", "l", " ", "x", " ", "n", "o", "t", " ", "f", "o", "u", "n", "d">>,
     <<"4", "0", "1", " ", "m", "o", "d", "e", "l", " ", "n", "o", "t", " ", "f", "o", "u", "n", "d">>,
     <<"r", "a", "t", "e", " ", "l", "i", "m", "i", "t", " ", "t", "i", "m", "e", "o", "u", "t">>,
     <<"t", "i", "m", "e", "o", "u", "t", ":", " ", "m", "o", "d", "e", "l", " ", "n", "o", "t", " ", "f", "o", "u", "n", "d">>,
     <<"C", "o", "n", "n", "e", "c", "t", "i", "o", "n", " ", "e", "r", "r", "o", "r", ".">>,
     <<"m", "o", "d", "e", "l", " ", "d", "e", "c", "o", "m", "m", "i", "s", "s", "i", "o", "n", "e", "d">>,
     <<"R", "e", "q", "u", "e", "s", "t", " ", "t", "i", "m", "e", "d", " ", "o", "u", "t", ".">>,
     <<>>}

(***************************************************************************)
(* The prompt builder (GroqService._build_analysis_prompt, lines 71-178).   *)
(***************************************************************************)
max_cv_length == 2800

max_jd_length == 1800

\* the marker put after a cut text
Ellipsis == <<".", ".", ".">>

\* text[:n]
Take(text, n) == SubSeq(text, 1, IF n < Len(text) THEN n ELSE Len(text))

Truncate_at_budget(text, max) ==
    IF Len(text) >= max THEN Take(text, max) \o Ellipsis ELSE text

Truncate_no_marker(text, max) ==
    IF Len(text) > max THEN Take(text, max) ELSE text

\* lines 83-89: a text over its budget is cut to the budget and marked
Truncate(text, max) ==
    IF Len(text) > max THEN Take(text, max) \o Ellipsis ELSE text

\* the two texts as the template of lines 91-178 embeds them; the template
\* around them is fixed
Prompt(cv, jd) == [cv |-> cv, jd |-> jd]

NoPrompt == Prompt(<<>>, <<>>)

_build_analysis_prompt(cv, jd) ==
    Prompt(Truncate(cv, max_cv_length), Truncate(jd, max_jd_length))

(***************************************************************************)
(* The search adapter (services/serper_service.py) and YouTubeVideo.        *)
(***************************************************************************)
\* settings.serper_num_results
serper_num_results == 5

\* num_results left out of the call (None)
NotGiven == 0

\* "key in d"
HasKey(d, key) == \E i \in 1..Len(d.members) : d.members[i].k = key

\* d.get(key, default)
DictGetOr(d, key, default) == IF HasKey(d, key) THEN DictGet(d, key) ELSE default

YouTubeDomains == {<<"y", "o", "u", "t", "u", "b", "e", ".", "c", "o", "m">>, <<"y", "o", "u", "t", "u", ".", "b", "e">>}

\* validate_youtube_link accepting every link
validate_youtube_link_any(v) == TRUE

\* validate_youtube_link: the link passes unless it is non-empty and holds
\* none of the domains
validate_youtube_link(v) == v = <<>> \/ \E domain \in YouTubeDomains : Contains(v, domain)

\* YouTubeVideo(title=..., link=..., channel=..., duration=..., thumbnail=...)
YouTubeVideo(title, link, channel, duration, thumbnail) ==
    IF /\ title.t = "str" /\ link.t = "str" /\ channel.t = "str" /\ duration.t = "str"
       /\ thumbnail.t \in {"str", "null"}
       /\ validate_youtube_link(link.s)
    THEN [ok |-> TRUE,
          model |-> [title |-> title.s, link |-> link.s, channel |-> channel.s,
                     duration |-> duration.s, thumbnail |-> thumbnail]]
    ELSE [ok |-> FALSE, model |-> [none |-> TRUE]]

\* lines 98-104 without the defaults of get(): a missing field is None
VideoOf_no_defaults(video_data) ==
    IF video_data.t # "dict" THEN [ok |-> FALSE, model |-> [none |-> TRUE]]
    ELSE YouTubeVideo(DictGet(video_data, "title"), DictGet(video_data, "link"),
                      DictGet(video_data, "channel"),
                      DictGetOr(video_data, "duration", JStr(<<"N", "/", "A">>)),
                      DictGet(video_data, "imageUrl"))

\* lines 98-104 for one entry; an entry that is no dict has no get()
VideoOf(video_data) ==
    IF video_data.t # "dict" THEN [ok |-> FALSE, model |-> [none |-> TRUE]]
    ELSE YouTubeVideo(DictGetOr(video_data, "title", JStr(<<"N", "/", "A">>)),
                      DictGetOr(video_data, "link", JStr(<<"#">>)),
                      DictGetOr(video_data, "channel", JStr(<<"N", "/", "A">>)),
                      DictGetOr(video_data, "duration", JStr(<<"N", "/", "A">>)),
                      DictGet(video_data, "imageUrl"))

\* the loop of lines 96-109 over every entry of the list, not the first
\* num_results
ParseVideos_no_limit(entries, num_results) ==
    LET kept == SelectSeq(entries, LAMBDA video_data : VideoOf(video_data).ok)
    IN [i \in 1..Len(kept) |-> VideoOf(kept[i]).model]

\* the loop of lines 96-109: the entries of results['videos'][:num_results]
\* that make a YouTubeVideo, in order
ParseVideos(entries, num_results) ==
    LET first == SubSeq(entries, 1, IF num_results < Len(entries) THEN num_results
                                    ELSE Len(entries))
        kept == SelectSeq(first, LAMBDA video_data : VideoOf(video_data).ok)
    IN [i \in 1..Len(kept) |-> VideoOf(kept[i]).model]

\* an exception of search_youtube_videos
SearchError(exc, msg, detail) == [exc |-> exc, msg |-> msg, detail |-> detail]

NoSearchError == SearchError("", "", "")

\* requests.post(base_url, headers=..., json={"q": q, "num": num}, timeout=15)
Request(q, num) == [sent |-> TRUE, q |-> q, num |-> num]

NoRequest == [sent |-> FALSE, q |-> <<>>, num |-> 0]

\* what the provider does with the request: a response with a status and a
\* body that is JSON or not, a timeout, or a connection error
Response(status_code, json, body) ==
    [kind |-> "response", status_code |-> status_code, json |-> json, body |-> body]

TimeoutReply == [kind |-> "timeout", status_code |-> 0, json |-> FALSE, body |-> JNull]

ConnectionErrorReply ==
    [kind |-> "connection", status_code |-> 0, json |-> FALSE, body |-> JNull]

NoReply == [kind |-> "none", status_code |-> 0, json |-> FALSE, body |-> JNull]

SearchOutcome(ok, videos, error, request) ==
    [ok |-> ok, videos |-> videos, error |-> error, request |-> request]

\* the query test without strip()
QueryIsEmpty_no_strip(query) == query = <<>>

\* "not query or not query.strip()" of line 53
QueryIsEmpty(query) == query = <<>> \/ Strip(query) = <<>>

\* the status test taking only 5xx for an error
StatusIsError_server_only(status_code) == status_code >= 500

\* "response.status_code != 200" of line 76
StatusIsError(status_code) == status_code # 200

\* search_youtube_videos (lines 35-122): the outcomes of one call, given what
\* the provider does with the request.  A 200 body that is no JSON makes
\* response.json() raise a JSONDecodeError, which is a RequestException or
\* only a ValueError, depending on the requests release.
search_youtube_videos(query, num_results, reply) ==
    IF QueryIsEmpty(query)
    THEN {SearchOutcome(FALSE, <<>>,
                        SearchError("ValueError", "Search query cannot be empty", ""),
                        NoRequest)}
    ELSE LET num == IF num_results # 0 THEN num_results ELSE serper_num_results
             request == Request(query, num)
             raise(msg, detail) ==
                 SearchOutcome(FALSE, <<>>, SearchError("SerperAPIError", msg, detail),
                               request)
             return(videos) == SearchOutcome(TRUE, videos, NoSearchError, request)
             results == reply.body
         IN IF reply.kind = "timeout"
            THEN {raise("Request timed out. Please try again.", "")}
            ELSE IF reply.kind = "connection"
            THEN {raise("Network error: ", "ConnectionError")}
            ELSE IF StatusIsError(reply.status_code)
            THEN {raise("Serper API error: ", "status_code")}
            ELSE IF ~reply.json
            THEN {raise("Network error: ", "JSONDecodeError"),
                  raise("Search failed: ", "JSONDecodeError")}
            ELSE IF results.t = "list"
            THEN {return(<<>>)}
            ELSE IF results.t # "dict"
            THEN {raise("Search failed: ", "TypeError")}
            ELSE IF ~HasKey(results, "videos")
            THEN {return(<<>>)}
            ELSE IF DictGet(results, "videos").t # "list"
            THEN {raise("Search failed: ", "TypeError")}
            ELSE {return(ParseVideos(DictGet(results, "videos").items, num))}

(***************************************************************************)
(* Settings (config.py) and the constructors of the two services.          *)
(***************************************************************************)
MsgSerperKeyNotProvided == <<"S", "e", "r", "p", "e", "r", " ", "A", "P", "I", " ", "k", "e", "y", " ", "n", "o", "t", " ", "p", "r", "o", "v", "i", "d", "e", "d">>

MsgGroqKeyNotProvided == <<"G", "r", "o", "q", " ", "A", "P", "I", " ", "k", "e", "y", " ", "n", "o", "t", " ", "p", "r", "o", "v", "i", "d", "e", "d", ".", " ", "S", "e", "t", " ", "G", "R", "O", "Q", "_", "A", "P", "I", "_", "K", "E", "Y", " ", "e", "n", "v", "i", "r", "o", "n", "m", "e", "n", "t", " ", "v", "a", "r", "i", "a", "b", "l", "e", ".">>

MsgFailedToInitialize == <<"F", "a", "i", "l", "e", "d", " ", "t", "o", " ", "i", "n", "i", "t", "i", "a", "l", "i", "z", "e", " ", "G", "r", "o", "q", " ", "c", "l", "i", "e", "n", "t">>

\* GROQ_API_KEY and SERPER_API_KEY as the process environment or the .env
\* file gives them; JNull is a variable that is not set
Environment(groq, serper) == [GROQ_API_KEY |-> groq, SERPER_API_KEY |-> serper]

\* the module-level settings instance before it is created (line 44)
NoSettings == [loaded |-> FALSE, groq_api_key |-> JNull, serper_api_key |-> JNull]

\* Settings() (lines 11-40): both keys are required strings
SettingsLoadable(e) == e.GROQ_API_KEY # JNull /\ e.SERPER_API_KEY # JNull

Settings(e) ==
    [loaded |-> TRUE, groq_api_key |-> e.GROQ_API_KEY, serper_api_key |-> e.SERPER_API_KEY]

\* get_settings() (lines 47-52): the instance, created on first use; when
\* Settings() raises the instance stays None and the error propagates
get_settings(cached, e) ==
    IF cached.loaded THEN [raised |-> FALSE, settings |-> cached]
    ELSE IF SettingsLoadable(e) THEN [raised |-> FALSE, settings |-> Settings(e)]
    ELSE [raised |-> TRUE, settings |-> cached]

\* a constructor call: the class, the api_key argument, whether it returned,
\* the key the service holds, the exception that left it, and the settings
\* instance after the call
Constructed(cls, arg, key, settings_after) ==
    [cls |-> cls, arg |-> arg, ok |-> TRUE, api_key |-> key, exc |-> "none",
     msg |-> <<>>, settings |-> settings_after]

ConstructorRaised(cls, arg, exc_type, msg, settings_after) ==
    [cls |-> cls, arg |-> arg, ok |-> FALSE, api_key |-> JNull, exc |-> exc_type,
     msg |-> msg, settings |-> settings_after]

NoService == ConstructorRaised("none", JNull, "none", <<>>, NoSettings)

\* a or b
Or(a, b) == IF Truthy(a) THEN a ELSE b

\* SerperService.__init__ (serper_service.py lines 21-33)
SerperServiceInit(api_key, cached, e) ==
    LET got == get_settings(cached, e)
        key == Or(api_key, got.settings.serper_api_key)
    IN  IF got.raised
        THEN ConstructorRaised("SerperService", api_key, "ValidationError", <<>>, got.settings)
        ELSE IF ~Truthy(key)
        THEN ConstructorRaised("SerperService", api_key, "ValueError", MsgSerperKeyNotProvided, got.settings)
        ELSE Constructed("SerperService", api_key, key, got.settings)

\* GroqService.__init__ (groq_service.py lines 30-53); client_ok is whether
\* the provider's client accepts the key
GroqServiceInit(api_key, cached, e, client_ok) ==
    LET got == get_settings(cached, e)
        key == Or(api_key, IF got.raised THEN JNull ELSE got.settings.groq_api_key)
    IN  IF ~Truthy(key)
        THEN ConstructorRaised("GroqService", api_key, "ValueError", MsgGroqKeyNotProvided, got.settings)
        ELSE IF ~client_ok
        THEN ConstructorRaised("GroqService", api_key, "GroqAPIError", MsgFailedToInitialize, got.settings)
        ELSE Constructed("GroqService", api_key, key, got.settings)

(***************************************************************************)
(* Text extraction (utils/pdf_parser.py).                                   *)
(***************************************************************************)
min_extracted_length == 50

MsgCannotDecrypt == "Cannot decrypt PDF: str(e)"
MsgNoTextExtracted == "No text could be extracted from PDF"
MsgTextTooShort == "Extracted text is too short, PDF may be image-based"
MsgInvalidPdf == "Invalid PDF file: "
MsgFailedToParsePdf == "Failed to parse PDF: "

\* a PDFParseError: the prefix the outer handlers put before str(e), and str(e)
PDFParseError(msg, detail) == [raised |-> TRUE, msg |-> msg, detail |-> detail]

NoPDFParseError == [raised |-> FALSE, msg |-> "", detail |-> ""]

\* a page: page.extract_text() raises, or returns a text
Page(raises, text) == [raises |-> raises, text |-> text]

\* a document: what the reader makes of the container, and its pages.
\* "plain" opens; "encrypted" opens with the empty password; on
\* "undecryptable" decrypt raises; on "not_decrypted" decrypt returns and the
\* page list raises PdfReadError; on "invalid" the reader raises PdfReadError;
\* on "broken" it raises another exception
Document(kind, pages) == [kind |-> kind, pages |-> pages]

DocumentKinds == {"plain", "encrypted", "undecryptable", "not_decrypted", "invalid", "broken"}

\* "\n".join(texts)
RECURSIVE JoinNewline(_)
JoinNewline(texts) ==
    IF texts = <<>> THEN <<>>
    ELSE IF Len(texts) = 1 THEN texts[1]
    ELSE texts[1] \o <<"\n">> \o JoinNewline(Tail(texts))

RECURSIVE TextContent_until_failure(_)
TextContent_until_failure(pages) ==
    IF pages = <<>> \/ Head(pages).raises THEN <<>>
    ELSE (IF Head(pages).text # <<>> THEN <<Head(pages).text>> ELSE <<>>)
         \o TextContent_until_failure(Tail(pages))

\* lines 49-62: the texts of the pages that gave one; a page that raises or
\* gives an empty text adds nothing and the loop goes on
RECURSIVE TextContent(_)
TextContent(pages) ==
    IF pages = <<>> THEN <<>>
    ELSE (IF ~Head(pages).raises /\ Head(pages).text # <<>>
          THEN <<Head(pages).text>> ELSE <<>>)
         \o TextContent(Tail(pages))

Extracted(text) == [ok |-> TRUE, text |-> text, error |-> NoPDFParseError]

ExtractionRaised(e) == [ok |-> FALSE, text |-> <<>>, error |-> e]

TooShort_inclusive(text) == Len(Strip(text)) <= min_extracted_length

\* line 71
TooShort(text) == Len(Strip(text)) < min_extracted_length

\* PDFParser.extract_text (lines 20-82).  The errors raised inside the try
\* block are PDFParseErrors, not PdfReadErrors, so the handler of line 80
\* catches them and raises them again behind its own prefix
extract_text(pdf_file) ==
    IF pdf_file.kind \in {"invalid", "not_decrypted"}
    THEN ExtractionRaised(PDFParseError(MsgInvalidPdf, "str(e)"))
    ELSE IF pdf_file.kind = "broken"
    THEN ExtractionRaised(PDFParseError(MsgFailedToParsePdf, "str(e)"))
    ELSE IF pdf_file.kind = "undecryptable"
    THEN ExtractionRaised(PDFParseError(MsgFailedToParsePdf, MsgCannotDecrypt))
    ELSE LET full_text == JoinNewline(TextContent(pdf_file.pages))
         IN  IF Strip(full_text) = <<>>
             THEN ExtractionRaised(PDFParseError(MsgFailedToParsePdf, MsgNoTextExtracted))
             ELSE IF TooShort(full_text)
             THEN ExtractionRaised(PDFParseError(MsgFailedToParsePdf, MsgTextTooShort))
             ELSE Extracted(Strip(full_text))

(***************************************************************************)
(* Input validation (utils/validators.py) and the page (app.py).           *)
(***************************************************************************)
max_length == 50000

min_cv_length == 100

min_jd_length == 50

num_videos == 5

validate_text_length_no_minimum(text, min_length) ==
    IF text = <<>> \/ Strip(text) = <<>>
    THEN [valid |-> FALSE, msg |-> "Text cannot be empty"]
    ELSE [valid |-> TRUE, msg |-> ""]

\* Validators.validate_text_length (lines 18-41): (is_valid, error_message)
validate_text_length(text, min_length) ==
    IF text = <<>> \/ Strip(text) = <<>>
    THEN [valid |-> FALSE, msg |-> "Text cannot be empty"]
    ELSE IF Len(Strip(text)) < min_length
    THEN [valid |-> FALSE, msg |-> "Text too short"]
    ELSE IF Len(Strip(text)) > max_length
    THEN [valid |-> FALSE, msg |-> "Text too long"]
    ELSE [valid |-> TRUE, msg |-> ""]

\* st.error, st.warning, st.info and st.success
Message(level, text) == [level |-> level, text |-> text]

\* st.session_state: the cached result and what the sidebar stored
Session(result, validated, groq_key, serper_key) ==
    [analysis_result |-> result, api_keys_validated |-> validated,
     groq_key |-> groq_key, serper_key |-> serper_key]

\* initialize_session_state (lines 64-69)
NewSession == Session(NoAnalysis, FALSE, JNull, JNull)

\* st.session_state.get("serper_key", "")  (line 385)
SerperKeyInState(sess) ==
    IF sess.serper_key = JNull THEN JStr(<<>>) ELSE sess.serper_key

\* what the page shows under the header: the result, the videos, the chosen
\* skill, and whether the "Analyze Another CV" button was drawn
Screen(result, skill, video_list, reset_button) ==
    [analysis |-> result, skill |-> skill, videos |-> video_list,
     reset_button |-> reset_button]

\* render_upload_section: no result on the page
UploadScreen == Screen(NoAnalysis, <<>>, <<>>, FALSE)

\* lines 281-285: the missing skills that are not blank or "Not specified"
RECURSIVE RealMissingSkills(_)
RealMissingSkills(skills) ==
    IF skills = <<>> THEN <<>>
    ELSE (IF Strip(Head(skills)) # <<>> /\ Lower(Strip(Head(skills))) # Lower(NotSpecified)
          THEN <<Head(skills)>> ELSE <<>>)
         \o RealMissingSkills(Tail(skills))

\* line 302: f"{selected_skill} tutorial, latest on youtube"
SearchQuery(selected_skill) ==
    selected_skill \o <<" ", "t", "u", "t", "o", "r", "i", "a", "l", ",", " ", "l", "a", "t", "e", "s", "t", " ", "o", "n", " ", "y", "o", "u", "t", "u", "b", "e">>

\* the selectbox of line 294: the skill the user chose if it is an option,
\* the first option otherwise
SelectedSkill(options, chosen) ==
    IF \E i \in 1..Len(options) : options[i] = chosen THEN chosen ELSE options[1]

\* what display_analysis_results does before it sends a search: the two
\* early returns, the selection and the SerperService constructor
Plan(issue, skill, messages_shown, settings_after, reset_button) ==
    [issue |-> issue, skill |-> skill, messages |-> messages_shown,
     settings |-> settings_after, reset_button |-> reset_button]

\* display_analysis_results, lines 276-310
display_analysis_results(result, serper_key, chosen, cached, e) ==
    LET real_missing_skills == RealMissingSkills(result.missing_skills)
        constructed == SerperServiceInit(serper_key, cached, e)
    IN  IF ~Truthy(serper_key)
        THEN Plan(FALSE, <<>>, <<Message("error", "Serper API key is missing.")>>, cached, FALSE)
        ELSE IF real_missing_skills = <<>>
        THEN Plan(FALSE, <<>>, <<Message("info", "No clear skill gaps detected")>>, cached, FALSE)
        ELSE IF ~constructed.ok
        THEN Plan(FALSE, SelectedSkill(real_missing_skills, chosen),
                  <<Message("error", "Unexpected error during video search: ")>>,
                  constructed.settings, TRUE)
        ELSE Plan(TRUE, SelectedSkill(real_missing_skills, chosen), <<>>,
                  constructed.settings, TRUE)

\* validate_cv_content and validate_job_description (validators.py lines
\* 93-142): a warning unless two of the keywords occur in the text
ContentWarning(text, keywords) ==
    Cardinality({k \in keywords : Contains(Lower(text), k)}) < 2

cv_keywords ==
    {<<"e", "x", "p", "e", "r", "i", "e", "n", "c", "e">>, <<"e", "d", "u", "c", "a", "t", "i", "o", "n">>,
     <<"s", "k", "i", "l", "l", "s">>, <<"w", "o", "r", "k">>, <<"u", "n", "i", "v", "e", "r", "s", "i", "t", "y">>,
     <<"d", "e", "g", "r", "e", "e">>, <<"j", "o", "b">>, <<"p", "o", "s", "i", "t", "i", "o", "n">>,
     <<"p", "r", "o", "j", "e", "c", "t">>, <<"a", "c", "h", "i", "e", "v", "e", "m", "e", "n", "t">>}

jd_keywords ==
    {<<"r", "e", "q", "u", "i", "r", "e", "m", "e", "n", "t", "s">>,
     <<"r", "e", "s", "p", "o", "n", "s", "i", "b", "i", "l", "i", "t", "i", "e", "s">>,
     <<"q", "u", "a", "l", "i", "f", "i", "c", "a", "t", "i", "o", "n", "s">>,
     <<"e", "x", "p", "e", "r", "i", "e", "n", "c", "e">>, <<"s", "k", "i", "l", "l", "s">>,
     <<"r", "e", "q", "u", "i", "r", "e", "d">>, <<"p", "r", "e", "f", "e", "r", "r", "e", "d">>,
     <<"m", "u", "s", "t", " ", "h", "a", "v", "e">>, <<"l", "o", "o", "k", "i", "n", "g", " ", "f", "o", "r">>}

\* what the "Validate API Keys" button does (app.py lines 92-117): the
\* messages, whether both keys were found valid, and the settings instance
\* after the two constructors
Sidebar(shown, validated, settings_after) ==
    [messages |-> shown, validated |-> validated, settings |-> settings_after]

render_sidebar(groq_key, serper_key, cached, e, client_ok, groq_valid, serper_valid) ==
    LET groq_service == GroqServiceInit(groq_key, cached, e, client_ok)
        serper_service == SerperServiceInit(serper_key, groq_service.settings, e)
    IN  IF ~Truthy(groq_key) \/ ~Truthy(serper_key)
        THEN Sidebar(<<Message("error", "Please provide both API keys")>>, FALSE, cached)
        ELSE IF ~groq_service.ok
        THEN Sidebar(<<Message("error", "Validation error: ")>>, FALSE, groq_service.settings)
        ELSE IF ~serper_service.ok
        THEN Sidebar(<<Message("error", "Validation error: ")>>, FALSE, serper_service.settings)
        ELSE IF groq_valid /\ serper_valid
        THEN Sidebar(<<Message("success", "Both API keys are valid!")>>, TRUE, serper_service.settings)
        ELSE Sidebar((IF ~groq_valid THEN <<Message("error", "Invalid Groq API key")>> ELSE <<>>)
                     \o (IF ~serper_valid THEN <<Message("error", "Invalid Serper API key")>> ELSE <<>>),
                     FALSE, serper_service.settings)

\* one run of the script: what started it, the stages it entered, the
\* requests it sent, the search query, and the result it is displaying
Run(kind, stages, completion_requests, search_requests, search_query, result) ==
    [kind |-> kind, stages |-> stages, completion_requests |-> completion_requests,
     search_requests |-> search_requests, query |-> search_query, analysis |-> result]

NoRun == Run("none", <<>>, 0, 0, <<>>, NoAnalysis)

\* the values a run of the Analyze pipeline carries from stage to stage
Flight(upload, job, cv, text) ==
    [uploaded_file |-> upload, job_description |-> job, cv_text |-> cv,
     result_text |-> text]

NoFlight == Flight(JNull, <<>>, <<>>, Text(<<>>, JDict(<<>>)))

\* lines 400-412: the messages for what is missing
MissingInputs(upload, job, groq_key, serper_key) ==
    (IF upload = JNull THEN <<Message("error", "Please upload a CV (PDF file)")>> ELSE <<>>)
    \o (IF job = <<>> THEN <<Message("error", "Please paste a job description")>> ELSE <<>>)
    \o (IF ~Truthy(groq_key) THEN <<Message("error", "Please enter your Groq API key")>> ELSE <<>>)
    \o (IF ~Truthy(serper_key) THEN <<Message("error", "Please enter your Serper API key")>> ELSE <<>>)

main_except_log_only(exc) == <<>>

\* the handlers of main (lines 487-498): one st.error per exception class
main_except(exc) ==
    <<Message("error", CASE exc = "PDFParseError" -> "PDF Error: "
                         [] exc = "GroqAPIError" -> "Analysis Error: "
                         [] exc = "SerperAPIError" -> "Search Error: "
                         [] OTHER -> "Unexpected Error: ")>>

Cached_in_place(sess, result) ==
    [sess EXCEPT !.analysis_result =
        [result EXCEPT !.missing_skills = RealMissingSkills(result.missing_skills)]]

\* line 478: the result goes into the session as it was returned
Cached(sess, result) == [sess EXCEPT !.analysis_result = result]

AfterProviderError_retry(r) == IF r.completion_requests < 2 THEN "completing" ELSE "page"

\* groq_service.py lines 471-489: the handler raises; analyze_cv is over
AfterProviderError(r) == "page"

AfterSearchError_retry(r) == IF r.search_requests < 2 THEN "searching" ELSE "page"

\* serper_service.py lines 108-122: the handlers raise; the search is over
AfterSearchError(r) == "page"

(***************************************************************************)
(* The state of one analyze_cv call.                                        *)
(***************************************************************************)
VARIABLES
    payload,         \* the payload the completion endpoint is about to send
    departures,      \* in how many places the completion departs from its base
    pc,              \* "idle", "completed" (the completion call returned),
                     \* "returned" (a CVAnalysis), "raised" (a GroqAPIError),
                     \* "probed" (test_connection returned)
    result_text,     \* completion.choices[0].message.content
    analysis_data,   \* the decoded payload
    path,            \* which parse attempt produced it: "direct", "regex", "none"
    fields,          \* the eight resolved locals: overall ... query
    strengths_norm,  \* the coerced skill lists
    missing_norm,
    analysis,        \* the returned CVAnalysis
    error,           \* the raised GroqAPIError
    exc,             \* the exception the provider call raised
    connected        \* what test_connection returned

(***************************************************************************)
(* The state of one search_youtube_videos call.                            *)
(***************************************************************************)
VARIABLES
    upstream,        \* the entries the search provider has for the query
    search_pc,       \* "idle", "returned" (a list of videos), "raised"
    query,           \* the arguments of the call
    num_results,
    request,         \* the request sent to the provider, if any
    response,        \* what the provider did with it
    videos,          \* the returned list
    search_error     \* the raised exception

(***************************************************************************)
(* The state of one _build_analysis_prompt call.                            *)
(***************************************************************************)
VARIABLES
    cv_text,         \* the arguments of the call
    job_description,
    prompt           \* the texts as embedded in the returned prompt

(***************************************************************************)
(* The process: its environment, the settings instance, and the service    *)
(* the last constructor call produced.                                      *)
(***************************************************************************)
VARIABLES
    env,             \* GROQ_API_KEY and SERPER_API_KEY
    settings,        \* the module-level settings instance of config.py
    service          \* the outcome of the last constructor call

(***************************************************************************)
(* The state of one extract_text call.                                      *)
(***************************************************************************)
VARIABLES
    document,        \* the uploaded file
    pdf_pc,          \* "idle", "returned" (a text), "raised" (a PDFParseError)
    extracted,       \* the returned text
    pdf_error        \* the raised PDFParseError

(***************************************************************************)
(* The page: one browser session of app.py.                                 *)
(***************************************************************************)
VARIABLES
    widgets,         \* the two keys typed into the sidebar
    session,         \* st.session_state
    app_pc,          \* "page" (the script is not running), or the stage the
                     \* running script is at: "extracting", "validating",
                     \* "completing", "normalizing", "searching"
    run,             \* the current run of the script, or the last one
    flight,          \* the values the running pipeline carries
    messages,        \* the messages the current or last run has shown
    screen,          \* the result and the videos on the page
    normalizer       \* analyze_cv's normalizer, as the table of its results
                     \* for the completion texts the session can meet

groq_vars == <<payload, departures, pc, result_text, analysis_data, path, fields,
               strengths_norm, missing_norm, analysis, error, exc, connected>>

serper_vars == <<upstream, search_pc, query, num_results, request, response, videos,
                 search_error>>

prompt_vars == <<cv_text, job_description, prompt>>

config_vars == <<env, settings, service>>

pdf_vars == <<document, pdf_pc, extracted, pdf_error>>

app_vars == <<widgets, session, app_pc, run, flight, messages, screen, normalizer>>

\* what no call on the completion client touches
outside_groq == <<serper_vars, config_vars, pdf_vars, app_vars>>

\* what no call on the search adapter touches
outside_serper == <<groq_vars, prompt_vars, config_vars, pdf_vars, app_vars>>

\* what no constructor call touches
outside_config == <<groq_vars, prompt_vars, serper_vars, pdf_vars, app_vars>>

\* what no extract_text call touches
outside_pdf == <<groq_vars, prompt_vars, serper_vars, config_vars, app_vars>>

\* what no run of the page touches
outside_app == <<groq_vars, prompt_vars, serper_vars, pdf_vars, env, service, normalizer>>

vars == <<groq_vars, prompt_vars, serper_vars, config_vars, pdf_vars, app_vars>>

NoText == Text(<<>>, JDict(<<>>))

\* no analyze_cv call has begun
GroqStart ==
    /\ departures = 0
    /\ pc = "idle"
    /\ result_text = NoText
    /\ analysis_data = JNull
    /\ path = "none"
    /\ fields = NoFields
    /\ strengths_norm = <<>>
    /\ missing_norm = <<>>
    /\ analysis = NoAnalysis
    /\ error = NoError
    /\ exc = NoException
    /\ connected = FALSE

\* no search_youtube_videos call has begun
SerperStart ==
    /\ upstream = <<>>
    /\ search_pc = "idle"
    /\ query = <<>>
    /\ num_results = NotGiven
    /\ request = NoRequest
    /\ response = NoReply
    /\ videos = <<>>
    /\ search_error = NoSearchError

\* no _build_analysis_prompt call has begun
PromptStart ==
    /\ cv_text = <<>>
    /\ job_description = <<>>
    /\ prompt = NoPrompt

\* a fresh process with neither key in its environment
ConfigStart ==
    /\ env = Environment(JNull, JNull)
    /\ settings = NoSettings
    /\ service = NoService

\* no extract_text call has begun
PdfStart ==
    /\ document = Document("plain", <<>>)
    /\ pdf_pc = "idle"
    /\ extracted = <<>>
    /\ pdf_error = NoPDFParseError

\* a browser session that has not run the script
PageStart ==
    /\ session = NewSession
    /\ app_pc = "page"
    /\ run = NoRun
    /\ flight = NoFlight
    /\ messages = <<>>
    /\ screen = UploadScreen

AppStart ==
    /\ widgets = [groq_key |-> JStr(<<>>), serper_key |-> JStr(<<>>)]
    /\ normalizer = <<>>
    /\ PageStart

Init ==
    /\ payload \in {GoodPayload, BadPayload, SchemaPayload}
    /\ GroqStart
    /\ PromptStart
    /\ SerperStart
    /\ ConfigStart
    /\ PdfStart
    /\ AppStart

\* the completion endpoint: the output departs from the example in one more key
Depart ==
    /\ pc = "idle"
    /\ departures < MaxDeviations
    /\ \E d \in Deviations :
          /\ payload[d.k] # d.v
          /\ payload' = [payload EXCEPT ![d.k] = d.v]
    /\ departures' = departures + 1
    /\ UNCHANGED <<pc, result_text, analysis_data, path, fields, strengths_norm,
                   missing_norm, analysis, error, exc, connected>>
    /\ UNCHANGED prompt_vars
    /\ UNCHANGED outside_groq

\* lines 220-239: the completion call returns its text, the payload in one of
\* the text forms (a form other than the bare object counts as a departure)
CreateCompletion ==
    /\ pc = "idle"
    /\ \E form \in Forms :
          /\ form = "plain" \/ departures < MaxDeviations
          /\ result_text' = Render(form, payload)
    /\ pc' = "completed"
    /\ UNCHANGED <<payload, departures, analysis_data, path, fields, strengths_norm,
                   missing_norm, analysis, error, exc, connected>>
    /\ UNCHANGED prompt_vars
    /\ UNCHANGED outside_groq

\* lines 241-469: the text is parsed and converted; analyze_cv returns the
\* CVAnalysis or raises
Normalize ==
    /\ pc = "completed"
    /\ \E out \in {NormalizeResponse(result_text)} :
          /\ pc' = IF out.ok THEN "returned" ELSE "raised"
          /\ analysis_data' = out.data
          /\ path' = out.path
          /\ fields' = out.fields
          /\ strengths_norm' = out.strengths_norm
          /\ missing_norm' = out.missing_norm
          /\ analysis' = out.analysis
          /\ error' = out.error
    /\ UNCHANGED <<payload, departures, result_text, exc, connected>>
    /\ UNCHANGED prompt_vars
    /\ UNCHANGED outside_groq

\* lines 220-239 and 471-489: the completion call raises, and analyze_cv
\* re-raises it as the GroqAPIError of its category; no completion exists
CompletionFails ==
    /\ pc = "idle"
    /\ departures = 0
    /\ \E msg \in ProviderMessages :
          /\ exc' = Exception(msg)
          /\ error' = ClassifyException(msg)
    /\ pc' = "raised"
    /\ UNCHANGED <<payload, departures, result_text, analysis_data, path, fields,
                   strengths_norm, missing_norm, analysis, connected>>
    /\ UNCHANGED prompt_vars
    /\ UNCHANGED outside_groq

\* test_connection (lines 491-509): the minimal request goes through or raises
TestConnection ==
    /\ pc = "idle"
    /\ departures = 0
    /\ \E e \in {NoException} \cup {Exception(msg) : msg \in ProviderMessages} :
          /\ exc' = e
          /\ connected' = TestConnectionResult(e)
    /\ pc' = "probed"
    /\ UNCHANGED <<payload, departures, result_text, analysis_data, path, fields,
                   strengths_norm, missing_norm, analysis, error>>
    /\ UNCHANGED prompt_vars
    /\ UNCHANGED outside_groq

\* the texts a caller may pass: a length, and the text of that length
CvLengths == {0, 120, 2799, 2800, 2801, 3500}

JdLengths == {0, 60, 1799, 1800, 1801, 2800, 2801}

Alphabet == <<"a", "b", "c", "d", "e", " ", ".">>

TextOfLength(n) == [i \in 1..n |-> Alphabet[(i % 7) + 1]]

\* one call of _build_analysis_prompt (lines 71-178)
BuildAnalysisPrompt ==
    /\ pc = "idle"
    /\ departures = 0
    /\ \E n \in CvLengths, m \in JdLengths :
          /\ cv_text' = TextOfLength(n)
          /\ job_description' = TextOfLength(m)
          /\ prompt' = _build_analysis_prompt(TextOfLength(n), TextOfLength(m))
    /\ pc' = "prompted"
    /\ UNCHANGED <<payload, departures, result_text, analysis_data, path, fields,
                   strengths_norm, missing_norm, analysis, error, exc, connected>>
    /\ UNCHANGED outside_groq

Next ==
    \/ Depart
    \/ CreateCompletion
    \/ Normalize
    \/ CompletionFails
    \/ TestConnection
    \/ BuildAnalysisPrompt

Spec == Init /\ [][Next]_vars

(***************************************************************************)
(* The search provider and the calls of search_youtube_videos.              *)
(***************************************************************************)
\* the entries a provider's list is made of
Entries ==
    {JDict(<<Member("title", JStr(<<"A">>)), Member("link", JStr(<<"h", "t", "t", "p", "s", ":", "/", "/", "y", "o", "u", "t", "u", "b", "e", ".", "c", "o", "m", "/", "w", "a", "t", "c", "h", "?", "v", "=", "o", "k">>)),
             Member("channel", JStr(<<"C">>)), Member("duration", JStr(<<"1", "0", ":", "0", "0">>)),
             Member("imageUrl", JStr(<<"i", ".", "j", "p", "g">>))>>),
     JDict(<<Member("title", JStr(<<"B">>)), Member("link", JStr(<<"h", "t", "t", "p", "s", ":", "/", "/", "y", "o", "u", "t", "u", ".", "b", "e", "/", "b">>)),
             Member("channel", JStr(<<"C">>))>>),
     JDict(<<Member("title", JStr(<<"N">>)), Member("link", JStr(<<"h", "t", "t", "p", "s", ":", "/", "/", "n", "o", "t", "y", "o", "u", "t", "u", "b", "e", ".", "c", "o", "m", "/", "x">>)),
             Member("channel", JStr(<<"C">>))>>),
     JDict(<<Member("title", JStr(<<"V">>)), Member("link", JStr(<<"h", "t", "t", "p", "s", ":", "/", "/", "v", "i", "m", "e", "o", ".", "c", "o", "m", "/", "1">>)),
             Member("channel", JStr(<<"C">>))>>),
     JDict(<<Member("link", JStr(<<"h", "t", "t", "p", "s", ":", "/", "/", "y", "o", "u", "t", "u", "b", "e", ".", "c", "o", "m", "/", "w", "a", "t", "c", "h", "?", "v", "=", "t">>)),
             Member("channel", JStr(<<"C">>))>>),
     JDict(<<Member("title", JStr(<<"H">>)), Member("link", JStr(<<"h", "t", "t", "p", "s", ":", "/", "/", "y", "o", "u", "t", "u", "b", "e", ".", "c", "o", "m", "/", "w", "a", "t", "c", "h", "?", "v", "=", "h">>))>>),
     JDict(<<Member("title", JStr(<<"L">>)), Member("channel", JStr(<<"C">>))>>),
     JDict(<<Member("some_field", JStr(<<"i", "n", "v", "a", "l", "i", "d">>))>>),
     JDict(<<Member("title", JNull), Member("link", JStr(<<"h", "t", "t", "p", "s", ":", "/", "/", "y", "o", "u", "t", "u", "b", "e", ".", "c", "o", "m", "/", "w", "a", "t", "c", "h", "?", "v", "=", "n">>)),
             Member("channel", JStr(<<"C">>))>>),
     JDict(<<Member("title", JStr(<<"E">>)), Member("link", JStr(<<>>)),
             Member("channel", JStr(<<"C">>))>>),
     JStr(<<"t", "e", "x", "t">>)}

\* the queries and count hints of the calls
Queries == {<<"G", "o">>, <<" ", "G", "o", " ", "t", "i", "p", "s", " ">>, <<>>, <<" ", " ">>}

Hints == {NotGiven, 1, 2, 10}

\* what the provider may do: answer 200 with its list, or, when it has no
\* list to give, any of the other replies
Replies(entries) ==
    {Response(200, TRUE, JDict(<<Member("videos", JList(entries))>>))}
    \cup IF entries # <<>> THEN {}
         ELSE {TimeoutReply, ConnectionErrorReply,
               Response(201, TRUE, JDict(<<Member("videos", JList(<<>>))>>)),
               Response(204, FALSE, JNull),
               Response(404, TRUE, JDict(<<Member("message", JStr(<<"N", "o", "t", " ", "f", "o", "u", "n", "d">>))>>)),
               Response(500, FALSE, JNull),
               Response(200, FALSE, JNull),
               Response(200, TRUE, JDict(<<Member("searchParameters", JDict(<<>>))>>)),
               Response(200, TRUE, JDict(<<Member("videos", JNull)>>)),
               Response(200, TRUE, JList(<<>>)),
               Response(200, TRUE, JInt(7))}

SearchInit ==
    /\ payload = GoodPayload
    /\ GroqStart
    /\ PromptStart
    /\ SerperStart
    /\ ConfigStart
    /\ PdfStart
    /\ AppStart

\* the provider has one more entry for the query
Provide ==
    /\ search_pc = "idle"
    /\ Len(upstream) < MaxUpstream
    /\ \E entry \in Entries : upstream' = Append(upstream, entry)
    /\ UNCHANGED <<search_pc, query, num_results, request, response, videos, search_error>>
    /\ UNCHANGED outside_serper

\* one call of search_youtube_videos (lines 35-122), request and reply included
SearchYoutubeVideos ==
    /\ search_pc = "idle"
    /\ \E q \in Queries, n \in Hints, reply \in Replies(upstream) :
          \E out \in search_youtube_videos(q, n, reply) :
              /\ query' = q
              /\ num_results' = n
              /\ request' = out.request
              /\ response' = IF out.request.sent THEN reply ELSE NoReply
              /\ videos' = out.videos
              /\ search_error' = out.error
              /\ search_pc' = IF out.ok THEN "returned" ELSE "raised"
    /\ UNCHANGED upstream
    /\ UNCHANGED outside_serper

SearchNext == Provide \/ SearchYoutubeVideos

SearchSpec == SearchInit /\ [][SearchNext]_vars

(***************************************************************************)
(* The environment and the constructor calls.                               *)
(***************************************************************************)
\* the values a key has in the environment, and the api_key arguments
EnvValues == {JNull, JStr(<<>>), JStr(<<"e", "n", "v", "1">>), JStr(<<"e", "n", "v", "2">>)}

KeyArguments == {JNull, JStr(<<>>), JStr(<<"t", "e", "s", "t", "_", "k", "e", "y">>)}

ConfigInit ==
    /\ payload = GoodPayload
    /\ GroqStart
    /\ PromptStart
    /\ SerperStart
    /\ ConfigStart
    /\ PdfStart
    /\ AppStart

\* the environment or the .env file changes one of the two keys
SetEnv ==
    /\ \E name \in {"GROQ_API_KEY", "SERPER_API_KEY"}, v \in EnvValues :
          /\ env[name] # v
          /\ env' = [env EXCEPT ![name] = v]
    /\ UNCHANGED <<settings, service>>
    /\ UNCHANGED outside_config

\* SerperService(api_key)
ConstructSerper ==
    /\ \E api_key \in KeyArguments :
          \E out \in {SerperServiceInit(api_key, settings, env)} :
              /\ service' = out
              /\ settings' = out.settings
    /\ UNCHANGED env
    /\ UNCHANGED outside_config

\* GroqService(api_key)
ConstructGroq ==
    /\ \E api_key \in KeyArguments, client_ok \in BOOLEAN :
          \E out \in {GroqServiceInit(api_key, settings, env, client_ok)} :
              /\ service' = out
              /\ settings' = out.settings
    /\ UNCHANGED env
    /\ UNCHANGED outside_config

ConfigNext == SetEnv \/ ConstructSerper \/ ConstructGroq

ConfigSpec == ConfigInit /\ [][ConfigNext]_vars

(***************************************************************************)
(* The uploaded documents and the calls of extract_text.                    *)
(***************************************************************************)
Letters(n) == [i \in 1..n |-> "x"]

\* what a page's extract_text may give
PageTexts ==
    {<<>>, <<" ", " ">>, Letters(20), Letters(24), Letters(25), Letters(50),
     <<" ">> \o Letters(49) \o <<"\n">>, <<" ">> \o Letters(50)}

Pages == {Page(TRUE, <<>>)} \cup {Page(FALSE, text) : text \in PageTexts}

PdfInit ==
    /\ payload = GoodPayload
    /\ GroqStart
    /\ PromptStart
    /\ SerperStart
    /\ ConfigStart
    /\ document \in {Document(kind, <<>>) : kind \in DocumentKinds}
    /\ pdf_pc = "idle"
    /\ extracted = <<>>
    /\ pdf_error = NoPDFParseError
    /\ AppStart

\* the uploaded document has one more page
AddPage ==
    /\ pdf_pc = "idle"
    /\ Len(document.pages) < MaxPages
    /\ \E page \in Pages :
          document' = [document EXCEPT !.pages = Append(@, page)]
    /\ UNCHANGED <<pdf_pc, extracted, pdf_error>>
    /\ UNCHANGED outside_pdf

\* one call of extract_text (lines 20-82)
ExtractText ==
    /\ pdf_pc = "idle"
    /\ \E out \in {extract_text(document)} :
          /\ pdf_pc' = IF out.ok THEN "returned" ELSE "raised"
          /\ extracted' = out.text
          /\ pdf_error' = out.error
    /\ UNCHANGED document
    /\ UNCHANGED outside_pdf

PdfNext == AddPage \/ ExtractText

PdfSpec == PdfInit /\ [][PdfNext]_vars

(***************************************************************************)
(* The runs of the page (app.py main).                                      *)
(***************************************************************************)
TypedKeys == {JStr(<<>>), JStr(<<"k", "e", "y">>)}

\* the files a user may upload: none, a CV of two pages, one whose first
\* page fails, one of 50 characters, a scanned one, and a file that is no PDF
Uploads ==
    {JNull,
     Document("plain", <<Page(FALSE, Letters(50)), Page(FALSE, Letters(50))>>),
     Document("plain", <<Page(TRUE, <<>>), Page(FALSE, Letters(50)), Page(FALSE, Letters(50))>>),
     Document("plain", <<Page(FALSE, Letters(50))>>),
     Document("plain", <<Page(FALSE, <<>>)>>),
     Document("invalid", <<>>)}

JobDescriptions == {<<>>, Letters(25) \o <<" ">> \o Letters(23), Letters(30) \o <<" ">> \o Letters(29)}

\* what the completion endpoint may do with the request: the example
\* payload, the same with two or with no missing skills, a payload that does
\* not validate, or an exception
CompletionTexts ==
    {Render("plain", p) :
        p \in {GoodPayload, BadPayload,
               [GoodPayload EXCEPT !["missing_skills"] = JList(<<sGo, sK8s>>)],
               [GoodPayload EXCEPT !["missing_skills"] = JList(<<>>)]}}

\* what analyze_cv makes of each of these texts (groq_service.py lines 241-469)
RECURSIVE Tabulated(_)
Tabulated(texts) ==
    IF texts = {} THEN <<>>
    ELSE LET text == CHOOSE t \in texts : TRUE
         IN  (text :> NormalizeResponse(text)) @@ Tabulated(texts \ {text})

Normalized == Tabulated(CompletionTexts)

CompletionReplies ==
    {[raised |-> FALSE, msg |-> <<>>, text |-> t] : t \in CompletionTexts}
    \cup {[raised |-> TRUE, msg |-> m, text |-> Text(<<>>, JDict(<<>>))] :
             m \in {<<"R", "e", "q", "u", "e", "s", "t", " ", "t", "i", "m", "e", "d", " ", "o", "u", "t", ".">>,
                    <<"C", "o", "n", "n", "e", "c", "t", "i", "o", "n", " ", "e", "r", "r", "o", "r", ".">>}}

\* what the search provider may do with the request
SearchReplies ==
    {Response(200, TRUE, JDict(<<Member("videos", JList(<<e>>))>>)) :
        e \in {x \in Entries : x.t = "dict" /\ DictGetOr(x, "title", JNull) \in {JStr(<<"A">>), JStr(<<"N">>)}}}
    \cup {Response(200, TRUE, JDict(<<Member("videos", JList(<<>>))>>)),
          Response(500, FALSE, JNull), TimeoutReply}

AppInit ==
    /\ payload = GoodPayload
    /\ GroqStart
    /\ PromptStart
    /\ SerperStart
    /\ PdfStart
    /\ env \in {Environment(JNull, JNull),
                Environment(JStr(<<"e", "n", "v", "1">>), JStr(<<"e", "n", "v", "2">>))}
    /\ settings = NoSettings
    /\ service = NoService
    /\ widgets \in [groq_key : TypedKeys, serper_key : TypedKeys]
    /\ normalizer = Normalized
    /\ PageStart

Begin(kind) == Run(kind, <<>>, 0, 0, <<>>, NoAnalysis)

\* the end of display_analysis_results (lines 324-366): the videos, the
\* download and the "Analyze Another CV" button; when that button was the
\* one clicked, the cache is emptied and the script runs again on the
\* upload page
Close(kind, result, skill, video_list, shown, reset_button, sess) ==
    /\ app_pc' = "page"
    /\ flight' = NoFlight
    /\ IF kind = "reset" /\ reset_button
       THEN /\ session' = [sess EXCEPT !.analysis_result = NoAnalysis]
            /\ screen' = UploadScreen
            /\ messages' = <<>>
       ELSE /\ session' = sess
            /\ screen' = Screen(result, skill, video_list, reset_button)
            /\ messages' = shown

\* display_analysis_results up to the search request of line 311
Display(r, result, serper_key, chosen, shown, sess, cached) ==
    \E plan \in {display_analysis_results(result, serper_key, chosen, cached, env)} :
        /\ settings' = plan.settings
        /\ IF plan.issue
           THEN /\ app_pc' = "searching"
                /\ run' = [r EXCEPT !.stages = Append(@, "search"),
                                    !.search_requests = @ + 1,
                                    !.query = SearchQuery(plan.skill),
                                    !.analysis = result]
                /\ flight' = NoFlight
                /\ messages' = shown
                /\ session' = sess
                /\ screen' = Screen(result, plan.skill, <<>>, FALSE)
           ELSE /\ run' = [r EXCEPT !.analysis = result]
                /\ Close(r.kind, result, plan.skill, <<>>, shown \o plan.messages,
                         plan.reset_button, sess)

\* the "Validate API Keys" button (lines 92-117), and the rest of main
ClickValidate ==
    /\ app_pc = "page"
    /\ \E client_ok \in BOOLEAN, groq_valid \in BOOLEAN, serper_valid \in BOOLEAN :
          \E side \in {render_sidebar(widgets.groq_key, widgets.serper_key, settings, env,
                                      client_ok, groq_valid, serper_valid)} :
              LET sess == IF side.validated
                          THEN [session EXCEPT !.api_keys_validated = TRUE,
                                               !.groq_key = widgets.groq_key,
                                               !.serper_key = widgets.serper_key]
                          ELSE session
              IN  IF session.analysis_result # NoAnalysis
                  THEN Display(Begin("validate"), session.analysis_result,
                               SerperKeyInState(sess), screen.skill, side.messages, sess,
                               side.settings)
                  ELSE /\ app_pc' = "page"
                       /\ run' = Begin("validate")
                       /\ messages' = side.messages
                       /\ session' = sess
                       /\ settings' = side.settings
                       /\ flight' = NoFlight
                       /\ screen' = UploadScreen
    /\ UNCHANGED widgets
    /\ UNCHANGED outside_app

\* the "Analyze CV" button (lines 398-416): the inputs are looked at
ClickAnalyze ==
    /\ app_pc = "page"
    /\ session.analysis_result = NoAnalysis
    /\ \E upload \in Uploads, job \in JobDescriptions :
          \E errors \in {MissingInputs(upload, job, widgets.groq_key, widgets.serper_key)} :
              /\ messages' = errors
              /\ run' = Begin("analyze")
              /\ IF errors # <<>>
                 THEN app_pc' = "page" /\ flight' = NoFlight
                 ELSE /\ app_pc' = "extracting"
                      /\ flight' = Flight(upload, job, <<>>, Text(<<>>, JDict(<<>>)))
    /\ screen' = UploadScreen
    /\ UNCHANGED <<widgets, session, settings>>
    /\ UNCHANGED outside_app

\* lines 419-423 and 487-489: the text of the CV is extracted
ExtractStage ==
    /\ app_pc = "extracting"
    /\ \E out \in {extract_text(flight.uploaded_file)} :
          /\ run' = [run EXCEPT !.stages = Append(@, "extraction")]
          /\ IF out.ok
             THEN /\ app_pc' = "validating"
                  /\ flight' = [flight EXCEPT !.cv_text = out.text]
                  /\ messages' = messages
             ELSE /\ app_pc' = "page"
                  /\ flight' = NoFlight
                  /\ messages' = messages \o main_except("PDFParseError")
    /\ UNCHANGED <<widgets, session, screen, settings>>
    /\ UNCHANGED outside_app

\* lines 425-445: the two length checks and the two content warnings
ValidateStage ==
    /\ app_pc = "validating"
    /\ \E cv \in {validate_text_length(flight.cv_text, min_cv_length)},
          jd \in {validate_text_length(flight.job_description, min_jd_length)} :
          /\ run' = [run EXCEPT !.stages = Append(@, "validation")]
          /\ IF ~cv.valid
             THEN /\ app_pc' = "page"
                  /\ flight' = NoFlight
                  /\ messages' = Append(messages, Message("error", "CV validation failed: "))
             ELSE IF ~jd.valid
             THEN /\ app_pc' = "page"
                  /\ flight' = NoFlight
                  /\ messages' = Append(messages, Message("error", "Job description validation failed: "))
             ELSE /\ app_pc' = "completing"
                  /\ flight' = flight
                  /\ messages' =
                        messages
                        \o (IF ContentWarning(flight.cv_text, cv_keywords)
                            THEN <<Message("warning", "This doesn't look like a typical CV.")>>
                            ELSE <<>>)
                        \o (IF ContentWarning(flight.job_description, jd_keywords)
                            THEN <<Message("warning", "This doesn't look like a typical job description.")>>
                            ELSE <<>>)
    /\ UNCHANGED <<widgets, session, screen, settings>>
    /\ UNCHANGED outside_app

\* lines 447-472 and 490-498 with groq_service.py lines 30-53 and 205-239:
\* the service is constructed, the prompt is built and the one completion
\* request is sent; the provider answers it or the call raises
CompletionStage ==
    /\ app_pc = "completing"
    /\ \E client_ok \in BOOLEAN, reply \in CompletionReplies :
          \E groq_service \in {GroqServiceInit(widgets.groq_key, settings, env, client_ok)},
             sent \in {[run EXCEPT !.stages = Append(@, "completion"),
                                   !.completion_requests = @ + 1]} :
              /\ settings' = groq_service.settings
              /\ IF ~groq_service.ok
                 THEN /\ app_pc' = "page"
                      /\ run' = run
                      /\ flight' = NoFlight
                      /\ messages' = messages \o main_except(groq_service.exc)
                 ELSE IF reply.raised
                 THEN /\ app_pc' = AfterProviderError(sent)
                      /\ run' = sent
                      /\ flight' = IF AfterProviderError(sent) = "page" THEN NoFlight ELSE flight
                      /\ messages' = IF AfterProviderError(sent) = "page"
                                     THEN Append(messages, Message("error", "AI Analysis Error: "))
                                     ELSE messages
                 ELSE /\ app_pc' = "normalizing"
                      /\ run' = sent
                      /\ flight' = [flight EXCEPT !.result_text = reply.text]
                      /\ messages' = messages
    /\ UNCHANGED <<widgets, session, screen>>
    /\ UNCHANGED outside_app

\* groq_service.py lines 241-469 and app.py lines 453-485: the completion
\* text is normalized; a result is cached and displayed
NormalizeStage ==
    /\ app_pc = "normalizing"
    /\ \E out \in {normalizer[flight.result_text]},
          normalized \in {[run EXCEPT !.stages = Append(@, "normalization")]} :
          IF out.ok
          THEN Display(normalized, out.analysis, widgets.serper_key, <<>>,
                       Append(messages, Message("success", "Analysis complete!")),
                       Cached(session, out.analysis), settings)
          ELSE /\ app_pc' = "page"
               /\ run' = normalized
               /\ flight' = NoFlight
               /\ messages' = Append(messages, Message("error", "AI Analysis Error: "))
               /\ UNCHANGED <<session, screen, settings>>
    /\ UNCHANGED widgets
    /\ UNCHANGED outside_app

\* app.py lines 311-366 with serper_service.py lines 58-122: the provider
\* answers the search request or the call raises; the videos are shown
SearchStage ==
    /\ app_pc = "searching"
    /\ \E reply \in SearchReplies :
          \E out \in search_youtube_videos(run.query, num_videos, reply) :
              IF out.ok
              THEN /\ run' = run
                   /\ Close(run.kind, run.analysis, screen.skill, out.videos,
                            IF out.videos = <<>>
                            THEN Append(messages, Message("info", "No videos found for this skill."))
                            ELSE messages,
                            TRUE, session)
              ELSE IF AfterSearchError(run) = "page"
              THEN /\ run' = run
                   /\ Close(run.kind, run.analysis, screen.skill, <<>>,
                            messages
                            \o <<Message("error", IF out.error.exc = "SerperAPIError"
                                                  THEN "Search Error: "
                                                  ELSE "Unexpected error during video search: "),
                                 Message("info", "No videos found for this skill.")>>,
                            TRUE, session)
              ELSE /\ run' = [run EXCEPT !.search_requests = @ + 1]
                   /\ UNCHANGED <<app_pc, flight, session, screen, messages>>
    /\ UNCHANGED <<widgets, settings>>
    /\ UNCHANGED outside_app

\* the options of the selectbox of line 294
SkillOptions(result) ==
    {RealMissingSkills(result.missing_skills)[i] :
        i \in 1..Len(RealMissingSkills(result.missing_skills))}

\* main lines 383-390: the script runs again with a cached result, because
\* the user chose a skill or touched another widget
SelectSkill ==
    /\ app_pc = "page"
    /\ session.analysis_result # NoAnalysis
    /\ \E chosen \in {screen.skill} \cup
                      (IF screen.reset_button THEN SkillOptions(session.analysis_result) ELSE {}) :
          Display(Begin("rerun"), session.analysis_result, SerperKeyInState(session),
                  chosen, <<>>, session, settings)
    /\ UNCHANGED widgets
    /\ UNCHANGED outside_app

\* the "Analyze Another CV" button (lines 363-366): the script runs with the
\* cached result down to the button
ClickReset ==
    /\ app_pc = "page"
    /\ session.analysis_result # NoAnalysis
    /\ screen.reset_button
    /\ Display(Begin("reset"), session.analysis_result, SerperKeyInState(session),
               screen.skill, <<>>, session, settings)
    /\ UNCHANGED widgets
    /\ UNCHANGED outside_app

AppNext ==
    \/ ClickValidate
    \/ ClickAnalyze
    \/ ExtractStage
    \/ ValidateStage
    \/ CompletionStage
    \/ NormalizeStage
    \/ SearchStage
    \/ SelectSkill
    \/ ClickReset

AppSpec == AppInit /\ [][AppNext]_vars

\* a script that has started runs on: every call it waits for returns,
\* raises or times out
AppLive ==
    /\ AppSpec
    /\ WF_vars(ExtractStage)
    /\ WF_vars(ValidateStage)
    /\ WF_vars(CompletionStage)
    /\ WF_vars(NormalizeStage)
    /\ WF_vars(SearchStage)

(***************************************************************************)
(* The failure taxonomy of the normalizer, read off the raised message.     *)
(***************************************************************************)
\* analyze_cv got a completion text and finished with it
Finished == pc \in {"returned", "raised"} /\ ~exc.raised

\* no JSON could be recovered (lines 267-275)
IsMalformedResponse(e) == e.msg \in {MsgInvalidJson, MsgNoJson}

\* the emptiness guard fired (line 430); the error reaches the caller behind
\* the prefix of line 469
IsEmptyAnalysis(e) == e.msg = MsgFailedToParse /\ e.detail = MsgEmptyAnalysis

\* any other failure of the conversion block (line 469)
IsValidationFailed(e) == e.msg = MsgFailedToParse /\ e.detail # MsgEmptyAnalysis

Scores(a) == <<a.overall_score, a.skills_match, a.experience_match, a.education_match>>

ResolvedScores(f) == <<f.overall, f.skills, f.experience, f.education>>

(***************************************************************************)
(* Properties.                                                              *)
(***************************************************************************)

\* C1: every returned result has four integer scores, each in 0..100; no
\* completion makes analyze_cv return an out-of-range score.
C1_ScoresInRange ==
    pc = "returned" => \A i \in 1..4 : Scores(analysis)[i] \in 0..100

\* a result is returned for a score at the edge of the range, and one whose
\* cast brought it into the range
C1_Witness ==
    /\ pc = "returned"
    /\ fields.overall = JInt(100)
    /\ analysis.overall_score = 100
    /\ analysis.skills_match = 72

\* the list is truly empty in the sense of the specification: it is empty, or
\* every element, trimmed and lower-cased, is one of the sentinels
TrulyEmptyAsSpecified(lst) ==
    \/ lst = <<>>
    \/ \A i \in 1..Len(lst) :
          Lower(Strip(PyStr(lst[i]))) \in
              {<<"n", "o", "t", " ", "s", "p", "e", "c", "i", "f", "i", "e", "d">>,
               <<"n", "/", "a">>, <<"n", "o", "n", "e">>}

IsBlankStr(v) == v.t = "str" /\ Strip(v.s) = <<>>

\* the payload resolved to nothing at all: four scores 0, both coerced skill
\* lists truly empty, blank summary, blank query
ResolvedAllEmpty ==
    /\ fields # NoFields
    /\ \A i \in 1..4 : ResolvedScores(fields)[i] = JInt(0)
    /\ HasLen(fields.strengths) /\ HasLen(fields.missing)
    /\ TrulyEmptyAsSpecified(NormalizeSkills(fields.strengths))
    /\ TrulyEmptyAsSpecified(NormalizeSkills(fields.missing))
    /\ IsBlankStr(fields.summary)
    /\ IsBlankStr(fields.query)

\* C2: when the payload resolves to four scores 0, two truly empty skill
\* lists, a blank summary and a blank query, analyze_cv raises the
\* empty-analysis error and returns no result.
C2_EmptyAnalysisRejected ==
    (Finished /\ ResolvedAllEmpty) =>
        /\ pc = "raised"
        /\ IsEmptyAnalysis(error)
        /\ analysis = NoAnalysis

\* the guard fires on lists that hold only sentinels, not just on empty ones
C2_Witness ==
    /\ pc = "raised"
    /\ ResolvedAllEmpty
    /\ IsEmptyAnalysis(error)
    /\ Len(strengths_norm) = 2
    /\ fields.summary # JStr(<<>>)

\* the number a resolved score denotes lies outside [0,100]
ValueOutsideRange(v) ==
    \/ v.t = "int" /\ (v.n < 0 \/ v.n > 100)
    \/ v.t = "float" /\ (v.h < 0 \/ v.h > 200)

\* C3 as stated: whenever one of the four resolved scores is outside [0,100],
\* analyze_cv fails with ValidationFailed and returns no result.
C3_AsStated ==
    (/\ Finished
     /\ fields # NoFields
     /\ \E i \in 1..4 : ValueOutsideRange(ResolvedScores(fields)[i]))
    => (pc = "raised" /\ IsValidationFailed(error) /\ analysis = NoAnalysis)

\* the integer a resolved score is cast to lies outside [0,100]
CastOutsideRange(v) == PyInt(v).ok /\ PyInt(v).n \notin 0..100

\* C3 (amended): whenever one of the four resolved scores, cast to an integer
\* (truncation toward zero), is outside [0,100], analyze_cv fails with
\* ValidationFailed and returns no result; the score is rejected, not clamped.
C3_CastScoreRejected ==
    (/\ Finished
     /\ fields # NoFields
     /\ \E i \in 1..4 : CastOutsideRange(ResolvedScores(fields)[i]))
    => (pc = "raised" /\ IsValidationFailed(error) /\ analysis = NoAnalysis)

\* a negative score and a score above 100 are each rejected by the validation
C3_Witness ==
    /\ pc = "raised"
    /\ fields # NoFields
    /\ fields.overall = JInt(0 - 5)
    /\ fields.skills = JInt(101)
    /\ error = GroqAPIError(MsgFailedToParse, "ValidationError")

\* C4: stage 1 parses the fence-stripped text first and retries on the
\* "{...}" span of the raw text only if that fails; the call fails with
\* MalformedResponse exactly when both attempts fail, as for text without
\* any JSON.
C4_TwoStageRecovery ==
    Finished =>
        LET direct == JsonLoads(CleanText(result_text.chars), result_text.body).ok
            span == JsonMatch(result_text.chars)
            retry == span # <<>> /\ JsonLoads(span, result_text.body).ok
        IN /\ (path = "direct") <=> direct
           /\ (path = "regex") <=> (~direct /\ retry)
           /\ IsMalformedResponse(error) <=> (~direct /\ ~retry)
           /\ IsMalformedResponse(error) => (pc = "raised" /\ analysis = NoAnalysis)
           /\ result_text.chars = FormChars.no_json => error.msg = MsgNoJson

\* both attempts were made and both failed: a span was found and did not parse
C4_Witness ==
    /\ pc = "raised"
    /\ JsonMatch(result_text.chars) # <<>>
    /\ error.msg = MsgInvalidJson

\* the object texts and the fenced texts that wrap them
FencedForms ==
    [fenced_json |-> ObjectChars,
     fenced |-> ObjectChars,
     fenced_tight |-> ObjectChars,
     fenced_padded |-> PaddedObjectChars]

\* what the caller observes of a call
Observed(ok, a, e) == [ok |-> ok, analysis |-> a, error |-> e]

\* C5: analyze_cv on an object text wrapped in code-fence markers has the
\* outcome (the same result or the same failure) of analyze_cv on the
\* object text itself.
C5_FenceInsensitive ==
    Finished =>
        \A form \in DOMAIN FencedForms :
            result_text.chars = FormChars[form] =>
                LET bare == NormalizeResponse(Text(FencedForms[form], result_text.body))
                IN Observed(pc = "returned", analysis, error)
                     = Observed(bare.ok, bare.analysis, bare.error)

\* a fenced completion was normalized to a result
C5_Witness ==
    /\ pc = "returned"
    /\ result_text.chars = FormChars.fenced_json
    /\ analysis.overall_score = 68

\* Stage 3 as the specification words it: the display string of one entry
DisplayString(item) ==
    LET named == item.t = "dict"
                   /\ (Truthy(DictGet(item, "name")) \/ Truthy(DictGet(item, "skill")))
        name == IF Truthy(DictGet(item, "name")) THEN DictGet(item, "name")
                ELSE DictGet(item, "skill")
        weight == DictGet(item, "importance")
    IN IF item.t = "str" THEN item.s
       ELSE IF named /\ weight # JNull
       THEN PyStr(name) \o <<" ", "(", "i", "m", "p", "o", "r", "t", "a", "n", "c", "e", " ">>
              \o PyStr(weight) \o <<"/", "1", "0", ")">>
       ELSE IF named THEN PyStr(name)
       ELSE PyStr(item)

\* the display strings of a whole resolved list value
DisplayStrings(raw) ==
    IF raw.t = "list" THEN [i \in 1..Len(raw.items) |-> DisplayString(raw.items[i])]
    ELSE IF raw.t = "str" THEN <<raw.s>>
    ELSE <<>>

\* a display-string list is degenerate: empty, or placeholders only
Degenerate(strs) ==
    \/ strs = <<>>
    \/ \A i \in 1..Len(strs) :
          Lower(Strip(strs[i])) \in
              {<<"n", "o", "t", " ", "s", "p", "e", "c", "i", "f", "i", "e", "d">>,
               <<"n", "/", "a">>, <<"n", "o", "n", "e">>}

\* the four resolved scores are numbers in [0,100] and neither skill list is
\* degenerate
ValidScoresAndLists ==
    /\ fields # NoFields
    /\ \A i \in 1..4 : /\ ResolvedScores(fields)[i].t \in {"int", "float"}
                       /\ ~ValueOutsideRange(ResolvedScores(fields)[i])
    /\ HasLen(fields.strengths) /\ HasLen(fields.missing)
    /\ ~Degenerate(DisplayStrings(fields.strengths))
    /\ ~Degenerate(DisplayStrings(fields.missing))

FirstPresentAsStated(data, keys, default) ==
    LET hits == {i \in 1..Len(keys) :
                    DictGet(data, keys[i]) # JNull /\ DictGet(data, keys[i]) # JInt(0)}
    IN IF hits = {} THEN default
       ELSE DictGet(data, keys[CHOOSE i \in hits : \A j \in hits : i <= j])

\* the lookup with Python's truth test: the first alias whose value is truthy
FirstTruthy(data, keys, default) ==
    LET hits == {i \in 1..Len(keys) : Truthy(DictGet(data, keys[i]))}
    IN IF hits = {} THEN default
       ELSE DictGet(data, keys[CHOOSE i \in hits : \A j \in hits : i <= j])

\* C7 as stated: each field resolves to the first alias, in the fixed order,
\* that is present and non-null (0, null and missing move on), the hard
\* default only when every alias is exhausted.
C7_AsStated ==
    (Finished /\ fields # NoFields) =>
        /\ fields.overall = FirstPresentAsStated(analysis_data, OverallKeys, JInt(0))
        /\ fields.skills = FirstPresentAsStated(analysis_data, SkillsKeys, JInt(0))
        /\ fields.experience = FirstPresentAsStated(analysis_data, ExperienceKeys, JInt(0))
        /\ fields.education = FirstPresentAsStated(analysis_data, EducationKeys, JInt(0))
        /\ fields.strengths = FirstPresentAsStated(analysis_data, StrengthsKeys, JList(<<>>))
        /\ fields.missing = FirstPresentAsStated(analysis_data, MissingKeys, JList(<<>>))
        /\ fields.summary = FirstPresentAsStated(analysis_data, SummaryKeys, JStr(<<>>))
        /\ fields.query = FirstPresentAsStated(analysis_data, QueryKeys, JStr(<<>>))

\* C7 (amended): each field resolves to the first alias, in the fixed order,
\* whose value is truthy (missing, null, false, 0, the empty string, the empty
\* list and the empty object all move on to the next alias), the hard default
\* only when every alias is exhausted.
C7_FirstTruthyAlias ==
    (Finished /\ fields # NoFields) =>
        /\ fields.overall = FirstTruthy(analysis_data, OverallKeys, JInt(0))
        /\ fields.skills = FirstTruthy(analysis_data, SkillsKeys, JInt(0))
        /\ fields.experience = FirstTruthy(analysis_data, ExperienceKeys, JInt(0))
        /\ fields.education = FirstTruthy(analysis_data, EducationKeys, JInt(0))
        /\ fields.strengths = FirstTruthy(analysis_data, StrengthsKeys, JList(<<>>))
        /\ fields.missing = FirstTruthy(analysis_data, MissingKeys, JList(<<>>))
        /\ fields.summary = FirstTruthy(analysis_data, SummaryKeys, JStr(<<>>))
        /\ fields.query = FirstTruthy(analysis_data, QueryKeys, JStr(<<>>))

\* a 0 under the first alias moves on, and of two later aliases the earlier wins
C7_Witness ==
    /\ Finished
    /\ fields # NoFields
    /\ DictGet(analysis_data, "overall_score") = JInt(0)
    /\ DictGet(analysis_data, "Overall Match Score") = JInt(61)
    /\ DictGet(analysis_data, "match_score") = JInt(63)
    /\ fields.overall = JInt(61)

\* nothing but the skill entries can make the call fail: the lists are lists
\* or bare strings, the scores cast into 0..100 and are not all 0, summary
\* and query are strings
OnlyEntriesInQuestion ==
    /\ fields # NoFields
    /\ fields.strengths.t \in {"list", "str"}
    /\ fields.missing.t \in {"list", "str"}
    /\ \A i \in 1..4 : /\ PyInt(ResolvedScores(fields)[i]).ok
                       /\ PyInt(ResolvedScores(fields)[i]).n \in 0..100
    /\ \E i \in 1..4 : PyInt(ResolvedScores(fields)[i]).n # 0
    /\ fields.summary.t = "str"
    /\ fields.query.t = "str"

OrPlaceholder(strs) == IF strs = <<>> THEN <<NotSpecified>> ELSE strs

\* C8 as stated: every entry is coerced to its display string and no entry
\* shape makes the analysis fail.
C8_AsStated ==
    (Finished /\ OnlyEntriesInQuestion) =>
        /\ pc = "returned"
        /\ analysis.strengths = OrPlaceholder(DisplayStrings(fields.strengths))
        /\ analysis.missing_skills = OrPlaceholder(DisplayStrings(fields.missing))

\* C9 as stated: in every result both lists are non-empty, all their elements
\* are non-empty strings, and a list empty after coercion is the single
\* element "Not specified".
C9_AsStated ==
    pc = "returned" =>
        /\ analysis.strengths # <<>> /\ analysis.missing_skills # <<>>
        /\ \A i \in 1..Len(analysis.strengths) : analysis.strengths[i] # <<>>
        /\ \A i \in 1..Len(analysis.missing_skills) : analysis.missing_skills[i] # <<>>
        /\ strengths_norm = <<>> => analysis.strengths = <<NotSpecified>>
        /\ missing_norm = <<>> => analysis.missing_skills = <<NotSpecified>>

IsString(x) == DOMAIN x = 1..Len(x) /\ \A i \in 1..Len(x) : x[i] \in STRING

\* C9 (amended): in every result both lists are non-empty sequences of
\* strings (an element may be the empty string), and a list empty after
\* coercion is the single element "Not specified".
C9_ListsNonEmpty ==
    pc = "returned" =>
        /\ analysis.strengths # <<>> /\ analysis.missing_skills # <<>>
        /\ \A i \in 1..Len(analysis.strengths) : IsString(analysis.strengths[i])
        /\ \A i \in 1..Len(analysis.missing_skills) : IsString(analysis.missing_skills[i])
        /\ DisplayStrings(fields.strengths) = <<>> => analysis.strengths = <<NotSpecified>>
        /\ DisplayStrings(fields.missing) = <<>> => analysis.missing_skills = <<NotSpecified>>

\* an empty list came back as the placeholder, beside a real list
C9_Witness ==
    /\ pc = "returned"
    /\ fields.strengths = JList(<<>>)
    /\ analysis.strengths = <<NotSpecified>>
    /\ analysis.missing_skills = <<sK8s.s>>

\* C10: in every result gaps_analysis has at least 10 characters and
\* youtube_search_query at least 3; a shorter summary is replaced by the
\* fallback sentence, a shorter query by "skill improvement tutorial".
C10_MinimumLengths ==
    pc = "returned" =>
        /\ Len(analysis.gaps_analysis) >= 10
        /\ Len(analysis.youtube_search_query) >= 3
        /\ Len(fields.summary.s) < 10 => analysis.gaps_analysis = AnalysisNotAvailable
        /\ Len(fields.query.s) < 3 =>
              analysis.youtube_search_query = SkillImprovementTutorial

\* a short summary and a short query were both replaced
C10_Witness ==
    /\ pc = "returned"
    /\ fields.summary = JStr(<<" ", "T", "e", "s", "t", " ">>)
    /\ fields.query = JStr(<<"G", "o">>)
    /\ analysis.gaps_analysis = AnalysisNotAvailable
    /\ analysis.youtube_search_query = SkillImprovementTutorial

\* C11 as stated: when the resolved summary or query is blank the result
\* holds the fallback string in its place, and no returned result carries a
\* blank gaps_analysis or a blank youtube_search_query.
C11_AsStated ==
    pc = "returned" =>
        /\ IsBlankStr(fields.summary) => analysis.gaps_analysis = AnalysisNotAvailable
        /\ IsBlankStr(fields.query) =>
              analysis.youtube_search_query = SkillImprovementTutorial
        /\ Strip(analysis.gaps_analysis) # <<>>
        /\ Strip(analysis.youtube_search_query) # <<>>

\* C12 as stated: every completion text ends in a result or in exactly one of
\* MalformedResponse, EmptyAnalysis, ValidationFailed; never in the generic
\* "Analysis failed" branch.
C12_AsStated ==
    Finished =>
        \/ pc = "returned"
        \/ IsMalformedResponse(error)
        \/ IsEmptyAnalysis(error)
        \/ IsValidationFailed(error)

\* a resolved list of plain strings
PlainList(raw) == raw.t = "list" /\ \A i \in 1..Len(raw.items) : raw.items[i].t = "str"

\* the list holds an element that is not a placeholder
HasNonSentinel(raw) ==
    \E i \in 1..Len(raw.items) : Lower(Strip(raw.items[i].s)) \notin Sentinels

\* the list holds an element that is neither blank nor a placeholder
HasRealSkill(raw) ==
    \E i \in 1..Len(raw.items) :
        /\ Strip(raw.items[i].s) # <<>>
        /\ Lower(Strip(raw.items[i].s)) \notin Sentinels

\* four scores 0 and nothing else wrong with the payload
ZeroScoredButValid ==
    /\ Finished
    /\ fields # NoFields
    /\ \A i \in 1..4 : ResolvedScores(fields)[i] = JInt(0)
    /\ PlainList(fields.strengths) /\ PlainList(fields.missing)
    /\ fields.summary.t = "str" /\ fields.query.t = "str"

\* C13 as stated: with four scores 0, one non-sentinel skill in either list,
\* or a non-blank summary, or a non-blank query is enough for the payload to
\* be returned as a result.
C13_AsStated ==
    (/\ ZeroScoredButValid
     /\ \/ HasNonSentinel(fields.strengths) \/ HasNonSentinel(fields.missing)
        \/ ~IsBlankStr(fields.summary) \/ ~IsBlankStr(fields.query))
    => pc = "returned"

\* C13 (amended): with four scores 0, one skill that is neither blank nor a
\* placeholder in either list, or a non-blank summary, or a non-blank query
\* is enough for the (otherwise valid) payload to be returned as a result
\* and not rejected as EmptyAnalysis.
C13_GuardNeedsAllFive ==
    (/\ ZeroScoredButValid
     /\ \/ HasRealSkill(fields.strengths) \/ HasRealSkill(fields.missing)
        \/ ~IsBlankStr(fields.summary) \/ ~IsBlankStr(fields.query))
    => pc = "returned"

\* a zero-scored payload whose only signal is one real skill was returned
C13_Witness ==
    /\ ZeroScoredButValid
    /\ pc = "returned"
    /\ HasRealSkill(fields.strengths)
    /\ fields.missing = JList(<<>>)
    /\ IsBlankStr(fields.summary) /\ IsBlankStr(fields.query)
    /\ \A i \in 1..4 : Scores(analysis)[i] = 0

\* the categories of the completion client, read off the raised message
IsAuthError(e) == e.msg = MsgInvalidApiKey

IsRateLimited(e) == e.msg = MsgRateLimit

IsTimeout(e) == e.msg = MsgTimedOut

IsModelUnavailable(e) == e.msg = MsgModelNotFound

IsUnknown(e) == e.msg = MsgAnalysisFailed

\* the lower-cased message of the provider's exception has one of the words
Mentions(words) == \E w \in words : Contains(Lower(exc.msg), w)

AuthWords == {<<"a", "u", "t", "h", "e", "n", "t", "i", "c", "a", "t", "i", "o", "n">>,
              <<"a", "p", "i", " ", "k", "e", "y">>, <<"4", "0", "1">>}

RateWords == {<<"r", "a", "t", "e", " ", "l", "i", "m", "i", "t">>, <<"4", "2", "9">>}

TimeoutWords == {<<"t", "i", "m", "e", "o", "u", "t">>}

ModelWords == <<"m", "o", "d", "e", "l">>

NotFoundWords == <<"n", "o", "t", " ", "f", "o", "u", "n", "d">>

MentionsModelNotFound == Mentions({ModelWords}) /\ Mentions({NotFoundWords})

C20_ProbeNeverRaises ==
    pc = "probed" =>
        /\ connected \in BOOLEAN
        /\ error = NoError
        /\ connected <=> ~exc.raised

\* the provider call raised and the probe answered false
C20_Witness ==
    /\ pc = "probed"
    /\ exc.raised
    /\ connected = FALSE
    /\ error = NoError

(***************************************************************************)
(* Properties of the search adapter.                                        *)
(***************************************************************************)
\* the host of a link: what stands between "https://" and the next "/"
HostOf(link) ==
    LET scheme == <<"h", "t", "t", "p", "s", ":", "/", "/">>
        rest == IF StartsWith(link, scheme) THEN SubSeq(link, Len(scheme) + 1, Len(link))
                ELSE link
        slashes == {i \in 1..Len(rest) : rest[i] = "/"}
    IN IF slashes = {} THEN rest
       ELSE SubSeq(rest, 1, (CHOOSE i \in slashes : \A j \in slashes : i <= j) - 1)

\* the host is one of the allowed domains or a subdomain of one
OnAllowList(link) ==
    \E domain \in {<<"y", "o", "u", "t", "u", "b", "e", ".", "c", "o", "m">>, <<"y", "o", "u", "t", "u", ".", "b", "e">>} :
        HostOf(link) = domain \/ EndsWith(HostOf(link), <<".">> \o domain)

\* C14 as stated: every returned video has a link on the video-host
\* allow-list; an entry on another host, such as https://notyoutube.com/x,
\* is dropped.
C14_AsStated ==
    search_pc = "returned" => \A i \in 1..Len(videos) : OnAllowList(videos[i].link)

\* the provider answered 200 with a list of entries under "videos"
GotList ==
    /\ request.sent
    /\ response.kind = "response" /\ response.status_code = 200 /\ response.json
    /\ response.body.t = "dict"
    /\ DictGet(response.body, "videos").t = "list"

\* the entries the call looks at: the first request.num of the list
Looked ==
    SubSeq(upstream, 1, IF request.num < Len(upstream) THEN request.num ELSE Len(upstream))

NA == <<"N", "/", "A">>

\* the entry is a dict with string title, link and channel, the link one the
\* validator takes
WellFormed(entry) ==
    /\ entry.t = "dict"
    /\ DictGet(entry, "title").t = "str"
    /\ DictGet(entry, "channel").t = "str"
    /\ DictGet(entry, "link").t = "str"
    /\ \E domain \in {<<"y", "o", "u", "t", "u", "b", "e", ".", "c", "o", "m">>, <<"y", "o", "u", "t", "u", ".", "b", "e">>} :
          Contains(DictGet(entry, "link").s, domain)

\* the well-formed entries looked at are all returned
WellFormedReturned ==
    \A k \in 1..Len(Looked) :
        WellFormed(Looked[k]) =>
            \E i \in 1..Len(videos) :
                /\ videos[i].title = DictGet(Looked[k], "title").s
                /\ videos[i].link = DictGet(Looked[k], "link").s
                /\ videos[i].channel = DictGet(Looked[k], "channel").s

\* C15 as stated: an entry missing title, link or channel never appears in
\* the returned sequence and does not make the call fail; the well-formed
\* entries around it are returned.
C15_AsStated ==
    GotList =>
        /\ search_pc = "returned"
        /\ \A i \in 1..Len(videos) :
              /\ videos[i].title # NA
              /\ videos[i].channel # NA
              /\ videos[i].link # <<"#">>
        /\ WellFormedReturned

\* C15 (amended): an entry missing its link never appears in the returned
\* sequence; an entry missing only title or channel appears with "N/A" in
\* the missing field; no such entry makes the call fail, and the well-formed
\* entries around it are returned.
C15_MissingFields ==
    GotList =>
        /\ search_pc = "returned"
        /\ \A i \in 1..Len(videos) : videos[i].link # <<"#">>
        /\ \A k \in 1..Len(Looked) :
              (/\ Looked[k].t = "dict"
               /\ ~HasKey(Looked[k], "title")
               /\ WellFormed(JDict(<<Member("title", JStr(NA))>> \o Looked[k].members)))
              => \E i \in 1..Len(videos) :
                     /\ videos[i].title = NA
                     /\ videos[i].link = DictGet(Looked[k], "link").s
        /\ \A k \in 1..Len(Looked) :
              (/\ Looked[k].t = "dict"
               /\ ~HasKey(Looked[k], "channel")
               /\ WellFormed(JDict(<<Member("channel", JStr(NA))>> \o Looked[k].members)))
              => \E i \in 1..Len(videos) :
                     /\ videos[i].channel = NA
                     /\ videos[i].link = DictGet(Looked[k], "link").s
        /\ WellFormedReturned

\* an entry without a link was dropped, one without a title was returned as
\* "N/A", and the well-formed entry after them was returned
C15_Witness ==
    /\ GotList
    /\ search_pc = "returned"
    /\ Len(upstream) = 3
    /\ upstream[1].t = "dict" /\ ~HasKey(upstream[1], "link")
    /\ upstream[2].t = "dict" /\ ~HasKey(upstream[2], "title")
    /\ WellFormed(upstream[3])
    /\ Len(videos) = 2
    /\ videos[1].title = NA
    /\ videos[2].title = <<"A">>

\* the video was made from the entry
MadeFrom(video, entry) ==
    /\ entry.t = "dict"
    /\ JStr(video.title) = DictGetOr(entry, "title", JStr(NA))
    /\ JStr(video.link) = DictGetOr(entry, "link", JStr(<<"#">>))
    /\ JStr(video.channel) = DictGetOr(entry, "channel", JStr(NA))

\* the videos are a subsequence of the provider's list
IsSubsequence ==
    \E f \in [1..Len(videos) -> 1..Len(upstream)] :
        /\ \A i, j \in 1..Len(videos) : i < j => f[i] < f[j]
        /\ \A i \in 1..Len(videos) : MadeFrom(videos[i], upstream[f[i]])

IsSearchUnavailable == search_pc = "raised" /\ search_error.exc = "SerperAPIError"

Readable ==
    /\ response.json
    /\ \/ response.body.t = "list"
       \/ /\ response.body.t = "dict"
          /\ HasKey(response.body, "videos") => DictGet(response.body, "videos").t = "list"

C18_EmptyQueryRejected ==
    (search_pc # "idle" /\ Strip(query) = <<>>) =>
        /\ search_pc = "raised"
        /\ search_error.exc = "ValueError"
        /\ search_error.msg = "Search query cannot be empty"
        /\ ~request.sent
        /\ videos = <<>>

\* a query of two spaces was rejected although the provider had entries
C18_Witness ==
    /\ search_pc = "raised"
    /\ query = <<" ", " ">>
    /\ upstream # <<>>
    /\ search_error.exc = "ValueError"
    /\ ~request.sent

(***************************************************************************)
(* Properties of analyze_cv, continued.                                     *)
(***************************************************************************)
\* the decoded payload is keyed by the field names of the result: a score,
\* two lists of strings, a summary and a query, and no alias of strengths
KeyedByFieldNames ==
    /\ Finished
    /\ analysis_data.t = "dict"
    /\ DictGet(analysis_data, "overall_score").t = "int"
    /\ DictGet(analysis_data, "overall_score").n \in 1..100
    /\ PlainList(DictGet(analysis_data, "strengths"))
    /\ HasRealSkill(DictGet(analysis_data, "strengths"))
    /\ PlainList(DictGet(analysis_data, "missing_skills"))
    /\ HasRealSkill(DictGet(analysis_data, "missing_skills"))
    /\ DictGet(analysis_data, "gaps_analysis").t = "str"
    /\ DictGet(analysis_data, "youtube_search_query").t = "str"
    /\ Len(Strip(DictGet(analysis_data, "youtube_search_query").s)) >= 3
    /\ \A i \in 1..Len(analysis_data.members) :
          analysis_data.members[i].k \in
              {"overall_score", "strengths", "missing_skills", "gaps_analysis",
               "youtube_search_query"}

\* C28 as stated: a completion keyed by the result's own field names comes
\* back as a CVAnalysis with the payload's overall_score, strengths,
\* missing_skills and youtube_search_query.
C28_AsStated ==
    KeyedByFieldNames =>
        /\ pc = "returned"
        /\ analysis.overall_score = DictGet(analysis_data, "overall_score").n
        /\ analysis.strengths = DisplayStrings(DictGet(analysis_data, "strengths"))
        /\ analysis.missing_skills = DisplayStrings(DictGet(analysis_data, "missing_skills"))
        /\ analysis.youtube_search_query = DictGet(analysis_data, "youtube_search_query").s

\* C30 as stated: no returned result is made of defaults and placeholders
\* only: four scores 0, both lists ["Not specified"], the fallback sentence
\* and the fallback query.
C30_AsStated ==
    pc = "returned" =>
        ~(/\ \A i \in 1..4 : Scores(analysis)[i] = 0
          /\ analysis.strengths = <<NotSpecified>>
          /\ analysis.missing_skills = <<NotSpecified>>
          /\ analysis.gaps_analysis = AnalysisNotAvailable
          /\ analysis.youtube_search_query = SkillImprovementTutorial)

(***************************************************************************)
(* Properties of _build_analysis_prompt.                                    *)
(***************************************************************************)
\* text as the claim words it: the first max characters and the marker when
\* it is longer than max, itself otherwise
EmbeddedAsStated(embedded, text, max) ==
    IF Len(text) > max
    THEN /\ Len(embedded) = max + 3
         /\ \A i \in 1..max : embedded[i] = text[i]
         /\ \A i \in 1..3 : embedded[max + i] = "."
    ELSE embedded = text

\* C21: a CV over 2800 characters is embedded as its first 2800 characters
\* and "...", a job description over 1800 as its first 1800 and "...", a
\* text at or under its budget verbatim, each whatever the other is; every
\* call returns a prompt.
C21_TruncatedIndependently ==
    pc = "prompted" =>
        /\ EmbeddedAsStated(prompt.cv, cv_text, 2800)
        /\ EmbeddedAsStated(prompt.jd, job_description, 1800)

\* a CV over its budget is cut while a job description exactly at its budget
\* goes in whole
C21_Witness ==
    /\ pc = "prompted"
    /\ Len(cv_text) = 2801
    /\ Len(prompt.cv) = 2803
    /\ Len(job_description) = 1800
    /\ prompt.jd = job_description

(***************************************************************************)
(* Properties of the constructors.                                          *)
(***************************************************************************)
\* the settings supply a key for the class
SettingsSupply(svc) ==
    /\ svc.settings.loaded
    /\ Truthy(IF svc.cls = "SerperService" THEN svc.settings.serper_api_key
              ELSE svc.settings.groq_api_key)

\* C29 as stated: SerperService with an explicit api_key is constructed and
\* holds that key whether or not the settings can be loaded, and it raises
\* ValueError("Serper API key not provided") only when neither the argument
\* nor the settings supply a key.
C29_AsStated ==
    service.cls = "SerperService" =>
        /\ Truthy(service.arg) => service.ok /\ service.api_key = service.arg
        /\ service.exc = "ValueError" =>
              /\ service.msg = MsgSerperKeyNotProvided
              /\ ~Truthy(service.arg)
              /\ ~SettingsSupply(service)

(***************************************************************************)
(* Properties of extract_text.                                              *)
(***************************************************************************)
\* the reader opened the container and listed its pages
Opened(doc) == doc.kind \in {"plain", "encrypted"}

\* the text of the pages that did extract, one page to a line
RECURSIVE Aggregated(_)
Aggregated(pages) ==
    IF pages = <<>> THEN <<>>
    ELSE LET rest == Aggregated(Tail(pages))
             page == Head(pages)
         IN  IF page.raises \/ page.text = <<>> THEN rest
             ELSE IF rest = <<>> THEN page.text
             ELSE page.text \o <<"\n">> \o rest

Trimmed(text) ==
    text = <<>> \/ (~IsSpace(text[1]) /\ ~IsSpace(text[Len(text)]))

\* the EmptyContent failure: one of the two messages of lines 69 and 72
IsEmptyContent(e) == e.raised /\ e.detail \in {MsgNoTextExtracted, MsgTextTooShort}

\* C22: a page whose extraction raises is left out and the pages after it
\* still count; for a document the reader opens, extract_text fails, and
\* fails as EmptyContent, exactly when the text aggregated from the pages
\* that did extract is under 50 characters once trimmed; a returned text is
\* that aggregate, trimmed and at least 50 characters long; no other
\* document fails as EmptyContent.
C22_EmptyContentExactly ==
    pdf_pc # "idle" =>
        /\ Opened(document) =>
              /\ pdf_pc = "raised" <=> Len(Strip(Aggregated(document.pages))) < 50
              /\ pdf_pc = "raised" => IsEmptyContent(pdf_error)
        /\ ~Opened(document) => pdf_pc = "raised" /\ ~IsEmptyContent(pdf_error)
        /\ pdf_pc = "returned" =>
              /\ Trimmed(extracted)
              /\ Len(extracted) >= 50
              /\ extracted = Strip(Aggregated(document.pages))

\* the first page raises, and the two pages after it make exactly 50
\* characters between them
C22_Witness ==
    /\ pdf_pc = "returned"
    /\ Len(document.pages) = 3
    /\ document.pages[1].raises
    /\ Len(document.pages[2].text) = 24
    /\ Len(document.pages[3].text) = 25
    /\ Len(extracted) = 50

(***************************************************************************)
(* Properties of the page.                                                  *)
(***************************************************************************)
\* one complete validated result: four scores in range, two non-empty lists
\* of strings, a summary and a query
CompleteResult(a) ==
    /\ DOMAIN a = {"overall_score", "skills_match", "experience_match", "education_match",
                   "strengths", "missing_skills", "gaps_analysis", "youtube_search_query"}
    /\ \A i \in 1..4 : Scores(a)[i] \in 0..100
    /\ a.strengths # <<>>
    /\ a.missing_skills # <<>>

HasError(shown) == \E i \in 1..Len(shown) : shown[i].level = "error"

\* a step in which a stage of the pipeline fails
StageFails ==
    /\ app_pc \in {"extracting", "validating", "completing", "normalizing"}
    /\ app_pc' = "page"
    /\ session'.analysis_result = NoAnalysis

AnalysisCompleted ==
    /\ session.analysis_result = NoAnalysis
    /\ app_pc = "normalizing"
    /\ NormalizeResponse(flight.result_text).ok
    /\ session'.analysis_result = NormalizeResponse(flight.result_text).analysis

UserRequestedReset ==
    /\ session.analysis_result # NoAnalysis
    /\ run'.kind = "reset"
    /\ session'.analysis_result = NoAnalysis

\* C23: the cache is None or one complete validated result; it changes only
\* from None to the result an analysis returned, as returned, and from a
\* result to None on the reset button; a step in which extraction,
\* validation, completion or normalization fails, and a step in which the
\* search fails, leave it as it was (unless the step is the reset).
C23_CacheTransitions ==
    /\ [](session.analysis_result = NoAnalysis \/ CompleteResult(session.analysis_result))
    /\ [][/\ session'.analysis_result # session.analysis_result =>
                AnalysisCompleted \/ UserRequestedReset
          /\ StageFails => session' = session
          /\ (app_pc = "searching" /\ run.kind # "reset") => session' = session]_vars

\* the cache was filled by an analysis and emptied again by the reset button
C23_Witness ==
    /\ app_pc = "page"
    /\ run.kind = "reset"
    /\ run.analysis # NoAnalysis
    /\ session.analysis_result = NoAnalysis

\* C24 as stated: whenever the script has run again on a cached result with
\* a real missing skill, it sent one search request, for the selected skill,
\* and the videos on the page are the ones of that call.
C24_AsStated ==
    (/\ app_pc = "page"
     /\ run.kind = "rerun"
     /\ session.analysis_result # NoAnalysis
     /\ RealMissingSkills(session.analysis_result.missing_skills) # <<>>)
    => /\ run.search_requests = 1
       /\ screen.skill \in SkillOptions(session.analysis_result)
       /\ run.query = SearchQuery(screen.skill)

PipelineOrder == <<"extraction", "validation", "completion", "normalization", "search">>

\* C25: a run of the Analyze pipeline enters its stages in the order
\* extraction, validation, completion, normalization, search, none twice
\* and none skipped; while it is running no stage has failed; the
\* completion request is sent only for an uploaded file that gave a text of
\* 100 to 50000 characters and a job description of 50 to 50000; the
\* normalizer runs only on a completion text that has arrived; a search
\* request is sent only for a result the normalizer returned.
C25_StagesInOrder ==
    run.kind = "analyze" =>
        /\ Len(run.stages) <= 5
        /\ run.stages = SubSeq(PipelineOrder, 1, Len(run.stages))
        /\ app_pc # "page" => ~HasError(messages)
        /\ app_pc \in {"completing", "normalizing"} =>
              /\ flight.uploaded_file # JNull
              /\ Opened(flight.uploaded_file)
              /\ flight.cv_text = Strip(Aggregated(flight.uploaded_file.pages))
              /\ Len(flight.cv_text) \in 100..50000
              /\ Len(Strip(flight.job_description)) \in 50..50000
        /\ app_pc = "normalizing" =>
              /\ run.completion_requests = 1
              /\ flight.result_text # Text(<<>>, JDict(<<>>))
        /\ run.search_requests > 0 =>
              /\ CompleteResult(run.analysis)
              /\ Len(run.stages) = 5

\* the whole pipeline has run: the search request is out
C25_Witness ==
    /\ run.kind = "analyze"
    /\ app_pc = "searching"
    /\ run.stages = PipelineOrder

C26_SearchWitness ==
    /\ app_pc = "page"
    /\ run.search_requests = 1
    /\ HasError(messages)
    /\ screen.videos = <<>>

\* the outcome of a finished Analyze run: the result is on the page and in
\* the cache, or an error message is
Definite ==
    \/ screen.analysis # NoAnalysis /\ session.analysis_result = screen.analysis
    \/ HasError(messages)

\* C27: every run started by the Analyze button comes to an end, and at its
\* end the result is displayed and cached or at least one error message is
\* shown.
C27_DefiniteOutcome ==
    /\ []((run.kind = "analyze" /\ app_pc = "page") => Definite)
    /\ (run.kind = "analyze" /\ app_pc # "page")
          ~> (run.kind = "analyze" /\ app_pc = "page" /\ Definite)

\* a run that failed at the first stage, with its one message
C27_Witness ==
    /\ run.kind = "analyze"
    /\ app_pc = "page"
    /\ run.stages = <<"extraction">>
    /\ HasError(messages)
    /\ session.analysis_result = NoAnalysis

====
